---- MODULE Spec2Model ----
(***************************************************************************)
(* A model of the bullwinkle object-enhancement library.                   *)
(*                                                                         *)
(*   SpecUtil      the constraint algebra of bw/util/constraint.py         *)
(*   SpecBW        the constraints of bw/bwobject.py and their inlining    *)
(*   SpecClass     chains of classes and member binding (__bwsetup__)      *)
(*   SpecSetup     class hierarchies and their __bwsetup__                 *)
(*   SpecMember    reads and writes of members of an instance              *)
(*   SpecSetter    assignments to a member with conversions (into)         *)
(*   SpecProp      members of bullwinkle/bwmember.py: read, write, delete  *)
(*   SpecDelegate  attributes delegated to a nested object                 *)
(*   SpecSmart     BWSmartObject classes and their generated constructors  *)
(*   SpecRegistry  type families and deferred type constraints             *)
(*   SpecRole      roles and their application to types and objects        *)
(*   SpecCached    attributes made by cached of bw/util/wrapper.py         *)
(*   SpecCode      CodeBlock trees of bw/util/code.py and their source     *)
(*   SpecThread    threads that instantiate one class for the first time   *)
(*   SpecConvert   stores in a member of bullwinkle/bwmember.py with       *)
(*                 converters                                              *)
(*   SpecMulti     constructor steps under multiple inheritance            *)
(*                                                                         *)
(* Every specification drives its own variables and leaves the variables   *)
(* of the other parts at their initial values.                             *)
(***************************************************************************)
EXTENDS Integers, Sequences, FiniteSets, TLC

VARIABLES
    \* bw/util/constraint.py: the operands, the last operator and its result
    uc1, uc2, uop, ures,
    \* bw/bwobject.py constraints: the operands, the last operator, its result
    bc1, bc2, bop, bres,
    \* class creation: the classes, the record of the last creation
    classes, created,
    \* members: the instance, the declaration, the accesses, the lists
    minst, mdecl, mtrace, mheap,
    \* assignment to a member: the declaration, the instance's __dict__
    \* entry, the last assignment
    sdecl, sdict, slast,
    \* bullwinkle/bwmember.py: the declaration, the instance's __dict__,
    \* the last access
    pdecl, pdict, plast,
    \* delegation: cache= of the delegate, the __dict__ of the outer object,
    \* the attribute of the nested object, the last access
    dcache, douter, dinner, dlast,
    \* BWSmartObject: the classes with their constructors, the last instantiation
    kclasses, klast,
    \* type families: the families, their __bwtypes__ dicts, the constraint
    \* ISA(name), the last operation
    rfamilies, rdicts, rcons, rlast,
    \* roles: the roles, BWRole.__bwrequires__, the types, one instance, the last apply
    oroles, orequires, otypes, oinst, olast,
    \* cached(): the attribute and the name of the function, the __dict__ of the object, the number of calls of the function, the last read
    cdecl, cdict, ccalls, clast,
    \* bw/util/code.py: one CodeBlock tree, the open block and the lines generated
    gtree, gcursor, glines, glast,
    \* bw/bwobject.py: threads that instantiate one BWSmartObject class
    tinline, tbwinit, tgenerated, tpc, tfn, tres,
    \* bullwinkle/bwmember.py: one member with converters and a value being stored
    idecl, idict, ivalue, ipc, iattempts,
    \* BWSmartObject classes with several base classes, the last operation
    xclasses, xlast

utilVars   == <<uc1, uc2, uop, ures>>
bwVars     == <<bc1, bc2, bop, bres>>
classVars  == <<classes, created>>
memberVars == <<minst, mdecl, mtrace, mheap>>
setterVars == <<sdecl, sdict, slast>>
propVars   == <<pdecl, pdict, plast>>
delegateVars == <<dcache, douter, dinner, dlast>>
smartVars == <<kclasses, klast>>
registryVars == <<rfamilies, rdicts, rcons, rlast>>
roleVars == <<oroles, orequires, otypes, oinst, olast>>
cachedVars == <<cdecl, cdict, ccalls, clast>>
codeVars == <<gtree, gcursor, glines, glast>>
threadVars == <<tinline, tbwinit, tgenerated, tpc, tfn, tres>>
convertVars == <<idecl, idict, ivalue, ipc, iattempts>>
multiVars == <<xclasses, xlast>>
vars       == <<utilVars, bwVars, classVars, memberVars, setterVars, propVars, delegateVars, smartVars, registryVars, roleVars, cachedVars, codeVars, threadVars, convertVars, multiVars>>

\* What the actions of one part leave unchanged.
exceptUtil   == <<bwVars, classVars, memberVars, setterVars, propVars, delegateVars, smartVars, registryVars, roleVars, cachedVars, codeVars, threadVars, convertVars, multiVars>>
exceptBW     == <<utilVars, classVars, memberVars, setterVars, propVars, delegateVars, smartVars, registryVars, roleVars, cachedVars, codeVars, threadVars, convertVars, multiVars>>
exceptClass  == <<utilVars, bwVars, memberVars, setterVars, propVars, delegateVars, smartVars, registryVars, roleVars, cachedVars, codeVars, threadVars, convertVars, multiVars>>
exceptMember == <<utilVars, bwVars, classVars, setterVars, propVars, delegateVars, smartVars, registryVars, roleVars, cachedVars, codeVars, threadVars, convertVars, multiVars>>
exceptSetter == <<utilVars, bwVars, classVars, memberVars, propVars, delegateVars, smartVars, registryVars, roleVars, cachedVars, codeVars, threadVars, convertVars, multiVars>>
exceptProp   == <<utilVars, bwVars, classVars, memberVars, setterVars, delegateVars, smartVars, registryVars, roleVars, cachedVars, codeVars, threadVars, convertVars, multiVars>>
exceptDelegate == <<utilVars, bwVars, classVars, memberVars, setterVars, propVars, smartVars, registryVars, roleVars, cachedVars, codeVars, threadVars, convertVars, multiVars>>
exceptSmart == <<utilVars, bwVars, classVars, memberVars, setterVars, propVars, delegateVars, registryVars, roleVars, cachedVars, codeVars, threadVars, convertVars, multiVars>>
exceptRegistry == <<utilVars, bwVars, classVars, memberVars, setterVars, propVars, delegateVars, smartVars, roleVars, cachedVars, codeVars, threadVars, convertVars, multiVars>>
exceptRole == <<utilVars, bwVars, classVars, memberVars, setterVars, propVars, delegateVars, smartVars, registryVars, cachedVars, codeVars, threadVars, convertVars, multiVars>>
exceptCached == <<utilVars, bwVars, classVars, memberVars, setterVars, propVars, delegateVars, smartVars, registryVars, roleVars, codeVars, threadVars, convertVars, multiVars>>
exceptCode == <<utilVars, bwVars, classVars, memberVars, setterVars, propVars, delegateVars, smartVars, registryVars, roleVars, cachedVars, threadVars, convertVars, multiVars>>
exceptThread == <<utilVars, bwVars, classVars, memberVars, setterVars, propVars, delegateVars, smartVars, registryVars, roleVars, cachedVars, codeVars, convertVars, multiVars>>
exceptConvert == <<utilVars, bwVars, classVars, memberVars, setterVars, propVars, delegateVars, smartVars, registryVars, roleVars, cachedVars, codeVars, threadVars, multiVars>>
exceptMulti == <<utilVars, bwVars, classVars, memberVars, setterVars, propVars, delegateVars, smartVars, registryVars, roleVars, cachedVars, codeVars, threadVars, convertVars>>

\* Largest integer value a constraint is checked against or compares with.
MaxVal == 2

\* Python values: the integers 0..MaxVal and one string, which Python 2
\* orders after every integer.
IntVals == 0 .. MaxVal
StrVal  == MaxVal + 1
Values  == IntVals \cup {StrVal}

TypeOf(v) == IF v = StrVal THEN "str_type" ELSE "int_type"

(***************************************************************************)
(* bw/util/constraint.py                                                   *)
(*                                                                         *)
(* An object is a record [kind, n, comparisons].  A raw Python value is    *)
(* kind "value" with the value in n, a raw type is kind "int_type" or      *)
(* "str_type", a constraint has its class in kind and its comparisons      *)
(* tuple in comparisons.  An operator that raises yields the exception's   *)
(* name as kind.                                                           *)
(***************************************************************************)
RawValue(v) == [kind |-> "value", n |-> v, comparisons |-> <<>>]
RawType(t)  == [kind |-> t, n |-> 0, comparisons |-> <<>>]
Raise(exc)  == [kind |-> exc, n |-> 0, comparisons |-> <<>>]
Constraint(cls, comparisons) ==
    [kind |-> cls, n |-> 0, comparisons |-> comparisons]

RawKinds == {"value", "int_type", "str_type"}
IsRaise(c) == c.kind \in {"NameError"}
IsConstraint(c) == c.kind \notin RawKinds /\ ~IsRaise(c)

\* The classes that inherit OrGroupable and AndGroupable.
OrGroupable == {"TypeConstraint", "ValueConstraint",
                "AnyConstraint", "NotAllConstraint"}
AndGroupable == {"NotValueConstraint", "LessThanConstraint",
                 "GreaterThanConstraint", "LessThanOrEqualToConstraint",
                 "GreaterThanOrEqualToConstraint",
                 "AllConstraint", "NoneConstraint"}
Subconstraints == {"AnyConstraint", "NotAllConstraint",
                   "AllConstraint", "NoneConstraint"}

\* Constrainable.constrain
constrain(other) ==
    IF IsConstraint(other) THEN other
    ELSE IF other.kind \in {"int_type", "str_type"}
         THEN Constraint("TypeConstraint", <<other>>)
         ELSE Constraint("ValueConstraint", <<other>>)

\* Subconstraint.__init__: every comparison goes through constrain.
Subconstraint(cls, comparisons) ==
    Constraint(cls, [i \in 1 .. Len(comparisons) |-> constrain(comparisons[i])])

SeqMin(s) == CHOOSE x \in {s[i].n : i \in 1 .. Len(s)} :
                 \A j \in 1 .. Len(s) : x <= s[j].n
SeqMax(s) == CHOOSE x \in {s[i].n : i \in 1 .. Len(s)} :
                 \A j \in 1 .. Len(s) : x >= s[j].n

\* The check method of every constraint class.
RECURSIVE check(_, _)
check(c, value) ==
    LET cs == c.comparisons
        n  == Len(cs)
    IN  CASE c.kind = "NeverConstraint"  -> FALSE
          [] c.kind = "AlwaysConstraint" -> TRUE
          [] c.kind = "TypeConstraint" ->
                \E i \in 1 .. n : cs[i].kind = TypeOf(value)
          [] c.kind = "ValueConstraint" ->
                \E i \in 1 .. n : cs[i].n = value
          [] c.kind = "NotValueConstraint" ->
                \A i \in 1 .. n : cs[i].n # value
          [] c.kind = "LessThanConstraint" -> value < SeqMin(cs)
          [] c.kind = "GreaterThanConstraint" -> value > SeqMax(cs)
          [] c.kind = "LessThanOrEqualToConstraint" -> value <= SeqMin(cs)
          [] c.kind = "GreaterThanOrEqualToConstraint" -> value >= SeqMax(cs)
          [] c.kind = "AnyConstraint" ->
                IF n = 0 THEN TRUE
                ELSE \E i \in 1 .. n : check(cs[i], value)
          [] c.kind = "NotAllConstraint" ->
                IF n = 0 THEN TRUE
                ELSE \E i \in 1 .. n : ~check(cs[i], value)
          [] c.kind = "AllConstraint" ->
                IF n = 0 THEN TRUE
                ELSE \A i \in 1 .. n : check(cs[i], value)
          [] c.kind = "NoneConstraint" ->
                IF n = 0 THEN TRUE
                ELSE \A i \in 1 .. n : ~check(cs[i], value)

\* Constrainable.__or__
ConstrainableOr(self, other) ==
    Subconstraint("AnyConstraint", <<self, constrain(other)>>)

\* Constrainable.__and__
ConstrainableAnd(self, other) ==
    Subconstraint("AllConstraint", <<self, other>>)

\* OrGroupable.orGroupClass and AndGroupable.andGroupClass: the class of
\* self when other has the same class, None otherwise.
GroupClass(self, other) ==
    IF self.kind = other.kind THEN self.kind ELSE "None"

\* OrGroupable.__or__: the branch for operands of different classes names
\* AllGroupable, which the module never defines.
OrGroupableOr(self, other0) ==
    LET other == constrain(other0)
        cls   == GroupClass(self, other)
    IN  IF cls = "None"
        THEN Raise("NameError")
        ELSE Constraint(cls, self.comparisons \o other.comparisons)

\* AndGroupable.__and__: the branch for operands of different classes
\* calls the __or__ of the class after AndGroupable in the MRO.
AndGroupableAnd(self, other0) ==
    LET other == constrain(other0)
        cls   == GroupClass(self, other)
    IN  IF cls = "None"
        THEN ConstrainableOr(self, other)
        ELSE Constraint(cls, self.comparisons \o other.comparisons)

\* self | other, by the MRO of the class of self.
Or(self, other) ==
    IF self.kind \in OrGroupable
    THEN OrGroupableOr(self, other)
    ELSE ConstrainableOr(self, other)

\* self & other, by the MRO of the class of self.
And(self, other) ==
    IF self.kind \in AndGroupable
    THEN AndGroupableAnd(self, other)
    ELSE ConstrainableAnd(self, other)

\* -self: Constrainable.__neg__ and its four overrides.
Neg(self) ==
    CASE self.kind = "AnyConstraint" ->
            Subconstraint("NoneConstraint", self.comparisons)
      [] self.kind = "NotAllConstraint" ->
            Subconstraint("AllConstraint", self.comparisons)
      [] self.kind = "AllConstraint" ->
            Subconstraint("NotAllConstraint", self.comparisons)
      [] self.kind = "NoneConstraint" ->
            Subconstraint("AnyConstraint", self.comparisons)
      [] OTHER -> Subconstraint("NoneConstraint", <<self>>)

\* Number of objects in a constraint: itself and all it holds.
RECURSIVE UtilSize(_)
RECURSIVE UtilSizeSum(_, _)
UtilSizeSum(cs, i) ==
    IF i > Len(cs) THEN 0 ELSE UtilSize(cs[i]) + UtilSizeSum(cs, i + 1)
UtilSize(c) == 1 + UtilSizeSum(c.comparisons, 1)

\* Largest constraint that is used as an operand again.
MaxSize == 5

\* The constraints the module's factories build from raw values and types.
UtilLeaves ==
    {Constraint(k, <<RawValue(v)>>) :
        k \in {"ValueConstraint", "NotValueConstraint", "LessThanConstraint",
               "GreaterThanConstraint", "LessThanOrEqualToConstraint",
               "GreaterThanOrEqualToConstraint"},
        v \in {1}}
    \cup {Constraint("TypeConstraint", <<RawType(t)>>) :
            t \in {"int_type", "str_type"}}
    \cup {Constraint("NeverConstraint", <<>>),
          Constraint("AlwaysConstraint", <<>>)}

\* Right operands: a constraint, a raw type or a raw value.
UtilOperands == UtilLeaves \cup {RawType("int_type"), RawValue(0)}

\* ures = uc1 | uc2
UOr ==
    /\ uop = "init"
    /\ uop' = "or"
    /\ ures' = Or(uc1, uc2)
    /\ UNCHANGED <<uc1, uc2>>
    /\ UNCHANGED exceptUtil

\* ures = uc1 & uc2
UAnd ==
    /\ uop = "init"
    /\ uop' = "and"
    /\ ures' = And(uc1, uc2)
    /\ UNCHANGED <<uc1, uc2>>
    /\ UNCHANGED exceptUtil

\* ures = -uc1
UNeg ==
    /\ uop = "init"
    /\ uop' = "neg"
    /\ ures' = Neg(uc1)
    /\ UNCHANGED <<uc1, uc2>>
    /\ UNCHANGED exceptUtil

\* ures = cls(*args): ANY_OF, NOT_ALL_OF, ALL_OF, NONE_OF called with no
\* argument, with uc1, or with uc1 and uc2.
UNew ==
    /\ uop = "init"
    /\ \E cls \in Subconstraints, args \in {<<>>, <<uc1>>, <<uc1, uc2>>} :
          ures' = Subconstraint(cls, args)
    /\ uop' = "new"
    /\ UNCHANGED <<uc1, uc2>>
    /\ UNCHANGED exceptUtil

\* The result becomes the left operand of the next operator.
UReuse ==
    /\ uop \in {"or", "and", "neg", "new"}
    /\ IsConstraint(ures)
    /\ UtilSize(ures) <= MaxSize
    /\ uc1' = ures
    /\ uc2' \in UtilOperands
    /\ uop' = "init"
    /\ ures' = ures
    /\ UNCHANGED exceptUtil

UtilNext == UOr \/ UAnd \/ UNeg \/ UNew \/ UReuse

(***************************************************************************)
(* bw/bwobject.py: constraints                                             *)
(*                                                                         *)
(* A constraint is a record [kind, values, types, constraints]: kind is    *)
(* its class, values and types the tuple of a BWValueConstraint (integers, *)
(* or types for ISA), constraints the children of a BWManyConstraint or    *)
(* the one child of a BWSubConstraint.  A raw value or type, as accepted   *)
(* by constraint_from_object, has kind "value" or "type".                  *)
(***************************************************************************)
BWNode(cls, values, types, constraints) ==
    [kind |-> cls, values |-> values, types |-> types,
     constraints |-> constraints]

BWRawValue(v) == BWNode("value", <<v>>, <<>>, <<>>)
BWRawType(t)  == BWNode("type", <<>>, <<t>>, <<>>)

\* NEVER and ALWAYS
NEVER  == BWNode("BWConstraint", <<>>, <<>>, <<>>)
ALWAYS == BWNode("BWNullConstraint", <<>>, <<>>, <<>>)

\* BWValueConstraint.__init__ for the comparison classes
BWValueConstraint(cls, values) == BWNode(cls, values, <<>>, <<>>)

\* BWTypeConstraint.__init__
BWTypeConstraint(types) == BWNode("BWTypeConstraint", <<>>, types, <<>>)

\* BWConstrainable.constraint_from_object
constraint_from_object(obj) ==
    CASE obj.kind = "type"  -> BWTypeConstraint(obj.types)
      [] obj.kind = "value" -> BWValueConstraint("BWEqualToConstraint", obj.values)
      [] OTHER -> obj

\* BWManyConstraint.__init__
BWManyConstraint(cls, constraints) ==
    BWNode(cls, <<>>, <<>>,
           [i \in 1 .. Len(constraints) |->
                constraint_from_object(constraints[i])])

\* BWConstrainable.ANY and ALL
ANY(objs) == BWManyConstraint("BWAnyConstraint", objs)
ALL(objs) == BWManyConstraint("BWAllConstraint", objs)

\* BWConstrainable.NOT and BWSubConstraint.__init__
NOT(obj) == BWNode("BWNotConstraint", <<>>, <<>>,
                   <<constraint_from_object(obj)>>)

\* BWConstrainable.__or__ and __and__
BWOr(self, other)  == ANY(<<self, other>>)
BWAnd(self, other) == ALL(<<self, other>>)

\* The check method of every constraint class of bw/bwobject.py.
RECURSIVE bwcheck(_, _)
bwcheck(c, obj) ==
    LET vs == c.values
        cs == c.constraints
    IN  CASE c.kind = "BWConstraint" -> FALSE
          [] c.kind = "BWNullConstraint" -> TRUE
          [] c.kind = "BWAnyConstraint" ->
                \E i \in 1 .. Len(cs) : bwcheck(cs[i], obj)
          [] c.kind = "BWAllConstraint" ->
                \A i \in 1 .. Len(cs) : bwcheck(cs[i], obj)
          [] c.kind = "BWNotConstraint" -> ~bwcheck(cs[1], obj)
          [] c.kind = "BWTypeConstraint" ->
                \E i \in 1 .. Len(c.types) : c.types[i] = TypeOf(obj)
          [] c.kind = "BWEqualToConstraint" ->
                \E i \in 1 .. Len(vs) : vs[i] = obj
          [] c.kind = "BWNotEqualToConstraint" ->
                \A i \in 1 .. Len(vs) : vs[i] # obj
          [] c.kind = "BWGreaterThanConstraint" ->
                \A i \in 1 .. Len(vs) : obj > vs[i]
          [] c.kind = "BWLessThanConstraint" ->
                \A i \in 1 .. Len(vs) : obj < vs[i]
          [] c.kind = "BWGreaterThanOrEqualToConstraint" ->
                \A i \in 1 .. Len(vs) : obj >= vs[i]
          [] c.kind = "BWLessThanOrEqualToConstraint" ->
                \A i \in 1 .. Len(vs) : obj <= vs[i]

(***************************************************************************)
(* Inlining.  inline() appends statements to a CodeBlock and hands the     *)
(* blocks it opens to the proceed and error factories.  A factory is named *)
(* by a string: "None", "ok" (function's lambda, which appends             *)
(* 'return True'), or "chainer" with the number of the frame it closes     *)
(* over.  A frame is one call of BWAnyConstraint.inline or                 *)
(* BWAllConstraint.inline: its constraints, the position of its            *)
(* constraint_iter, and the factories it was called with.  The frames are  *)
(* threaded through the generation, since every call of a chainer advances *)
(* the iterator of its frame.                                              *)
(*                                                                         *)
(* Generated code is a sequence of statements [op, c, body, orelse]:       *)
(* "return" is 'return True'; "if" is 'if v in c:' with its block and the  *)
(* block of its 'else:' (empty when there is none); "ifnot" is             *)
(* 'if v not in c:'.                                                       *)
(***************************************************************************)
NoFactory == [f |-> "None", frame |-> 0, into |-> <<>>]
OkFactory == [f |-> "ok", frame |-> 0, into |-> <<>>]
ChainerOf(k) == [f |-> "chainer", frame |-> k, into |-> <<>>]

\* The success and error closures of BWMember.build_setter; error closes
\* over the member's into.
SuccessFactory == [f |-> "success", frame |-> 0, into |-> <<>>]
ErrorFactory(into) == [f |-> "error", frame |-> 0, into |-> into]

ReturnTrue == [op |-> "return", c |-> NEVER, body |-> <<>>, orelse |-> <<>>]
IfIn(c, body, orelse) ==
    [op |-> "if", c |-> c, body |-> body, orelse |-> orelse]
IfNotIn(c, body) ==
    [op |-> "ifnot", c |-> c, body |-> body, orelse |-> <<>>]

\* The statements of a setter: 'target.__dict__[name] = value',
\* 'raise TypeError(...)', and 'try: value = into(value)' followed by the
\* rest of its block, with the block of its
\* 'except (TypeError, ValueError):'.
Store == [op |-> "store", c |-> NEVER, body |-> <<>>, orelse |-> <<>>]
RaiseTypeError == [op |-> "raise", c |-> NEVER, body |-> <<>>, orelse |-> <<>>]
TryInto(into, body, handler) ==
    [op |-> "try", c |-> into, body |-> body, orelse |-> handler]

\* error(blk, var, msg) of build_setter: one try block per entry of into,
\* each inside the except block of the one before, and the raise inside
\* the last except block.
RECURSIVE ErrorBlock(_, _)
ErrorBlock(into, i) ==
    IF i > Len(into) THEN <<RaiseTypeError>>
    ELSE <<TryInto(into[i], <<Store>>, ErrorBlock(into, i + 1))>>

Generated(code, frames) == [code |-> code, frames |-> frames]

RECURSIVE inline(_, _, _, _)
RECURSIVE chainer(_, _)
RECURSIVE CallFactory(_, _)

\* factory(blk, var, ...): the statements it appends to blk.
CallFactory(factory, frames) ==
    CASE factory.f = "ok" -> Generated(<<ReturnTrue>>, frames)
      [] factory.f = "success" -> Generated(<<Store>>, frames)
      [] factory.f = "error" ->
            Generated(ErrorBlock(factory.into, 1), frames)
      [] factory.f = "chainer" -> chainer(factory.frame, frames)
      [] OTHER -> Generated(<<>>, frames)

\* The chainer closures of BWAnyConstraint.inline and
\* BWAllConstraint.inline: take the next constraint of constraint_iter
\* and inline it, or call the factory of the exhausted case.
chainer(k, frames) ==
    LET fr == frames[k]
    IN  IF fr.pos < Len(fr.constraints)
        THEN LET advanced == [frames EXCEPT ![k].pos = fr.pos + 1]
                 constraint == fr.constraints[fr.pos + 1]
             IN  IF fr.kind = "BWAnyConstraint"
                 THEN inline(constraint, fr.proceed_factory,
                             ChainerOf(k), advanced)
                 ELSE inline(constraint, ChainerOf(k),
                             fr.error_factory, advanced)
        ELSE IF fr.kind = "BWAnyConstraint"
             THEN CallFactory(fr.error_factory, frames)
             ELSE CallFactory(fr.proceed_factory, frames)

\* c.inline(blk, var, proceed_factory, error_factory)
inline(c, proceed_factory, error_factory, frames) ==
    CASE c.kind \in {"BWAnyConstraint", "BWAllConstraint"} ->
            LET opened == Append(frames,
                    [kind |-> c.kind, constraints |-> c.constraints,
                     pos |-> 0, proceed_factory |-> proceed_factory,
                     error_factory |-> error_factory])
            IN  chainer(Len(opened), opened)
      [] c.kind = "BWConstraint" ->
            CallFactory(error_factory, frames)
      [] c.kind = "BWNullConstraint" ->
            CallFactory(proceed_factory, frames)
      [] OTHER ->
            IF proceed_factory.f # "None"
            THEN LET then == CallFactory(proceed_factory, frames)
                     else == CallFactory(error_factory, then.frames)
                 IN  Generated(<<IfIn(c, then.code, else.code)>>, else.frames)
            ELSE IF error_factory.f # "None"
                 THEN LET then == CallFactory(error_factory, frames)
                      IN  Generated(<<IfNotIn(c, then.code)>>, then.frames)
                 ELSE Generated(<<>>, frames)

\* Running generated code on v: TRUE when a 'return True' is reached.
RECURSIVE Returns(_, _, _)
Returns(code, i, v) ==
    IF i > Len(code) THEN FALSE
    ELSE LET st == code[i]
         IN  CASE st.op = "return" -> TRUE
               [] st.op = "if" ->
                    IF bwcheck(st.c, v)
                    THEN Returns(st.body, 1, v) \/ Returns(code, i + 1, v)
                    ELSE Returns(st.orelse, 1, v) \/ Returns(code, i + 1, v)
               [] st.op = "ifnot" ->
                    IF ~bwcheck(st.c, v)
                    THEN Returns(st.body, 1, v) \/ Returns(code, i + 1, v)
                    ELSE Returns(code, i + 1, v)

\* BWConstraint.function: 'def f(v):', the inlined check with ok as the
\* proceed factory and no error factory, then 'return False'.
function(c, v) ==
    Returns(inline(c, OkFactory, NoFactory, <<>>).code, 1, v)

\* Number of constraint objects in a constraint.
RECURSIVE BWSize(_)
RECURSIVE BWSizeSum(_, _)
BWSizeSum(cs, i) ==
    IF i > Len(cs) THEN 0 ELSE BWSize(cs[i]) + BWSizeSum(cs, i + 1)
BWSize(c) == 1 + BWSizeSum(c.constraints, 1)

\* Largest constraint that is used as an operand again.
MaxNodes == 3

BWLeaves ==
    {BWValueConstraint(k, <<v>>) :
        k \in {"BWEqualToConstraint", "BWNotEqualToConstraint",
               "BWLessThanConstraint", "BWGreaterThanConstraint",
               "BWLessThanOrEqualToConstraint",
               "BWGreaterThanOrEqualToConstraint"},
        v \in {1}}
    \cup {BWValueConstraint("BWEqualToConstraint", <<0>>),
          BWValueConstraint("BWEqualToConstraint", <<MaxVal>>)}
    \cup {BWTypeConstraint(<<t>>) : t \in {"int_type", "str_type"}}
    \cup {NEVER, ALWAYS}

BWOperands == BWLeaves \cup {BWRawType("int_type"), BWRawValue(0)}

\* bres = bc1 | bc2
BOr ==
    /\ bop = "init"
    /\ bop' = "or"
    /\ bres' = BWOr(bc1, bc2)
    /\ UNCHANGED <<bc1, bc2>>
    /\ UNCHANGED exceptBW

\* bres = bc1 & bc2
BAnd ==
    /\ bop = "init"
    /\ bop' = "and"
    /\ bres' = BWAnd(bc1, bc2)
    /\ UNCHANGED <<bc1, bc2>>
    /\ UNCHANGED exceptBW

\* bres = -bc1
BNot ==
    /\ bop = "init"
    /\ bop' = "not"
    /\ bres' = NOT(bc1)
    /\ UNCHANGED <<bc1, bc2>>
    /\ UNCHANGED exceptBW

\* The result becomes the left operand of the next operator.
BReuse ==
    /\ bop \in {"or", "and", "not"}
    /\ BWSize(bres) <= MaxNodes
    /\ bc1' = bres
    /\ bc2' \in BWOperands
    /\ bop' = "init"
    /\ bres' = bres
    /\ UNCHANGED exceptBW

\* The right operand becomes the left one and the result the right one,
\* as in c1 | (c2 | c3).
BReuseRight ==
    /\ bop \in {"or", "and", "not"}
    /\ BWSize(bres) <= MaxNodes
    /\ bc1' \in BWLeaves
    /\ bc2' = bres
    /\ bop' = "init"
    /\ bres' = bres
    /\ UNCHANGED exceptBW

BWNext == BOr \/ BAnd \/ BNot \/ BReuse \/ BReuseRight

(***************************************************************************)
(* bw/bwobject.py: class creation                                          *)
(*                                                                         *)
(* classes is the sequence of the classes that exist; a class is named by  *)
(* its index.  classes[1] is object and classes[2] is BWObject.  A class   *)
(* is a record                                                             *)
(*   bases         its base classes                                        *)
(*   mro           its __mro__                                             *)
(*   dict          its own namespace: attribute name -> attribute          *)
(*   setup         the __bwsetup__ of its own namespace: "None", "user",   *)
(*                 or "bwsetup", the function the module gives BWObject    *)
(*   hascallbacks  whether its own namespace holds __bwcallbacks__         *)
(*   bwcallbacks   that tuple                                              *)
(* An attribute is a record [t, cls, name, order, rebind, ret, pos]:       *)
(*   t = "absent"  no such attribute                                       *)
(*   t = "plain"   a value without __bwbind__, declared in cls as name     *)
(*   t = "binder"  an object with __bwbind__, declared in cls as name,     *)
(*                 with its __bwbindorder__ (0 when it has none), its      *)
(*                 __bwrebind__ ("None", "True", or "fn" for a function    *)
(*                 of its own) and what its callbacks return               *)
(*   t = "repl"    the value that callback number pos returned while cls   *)
(*                 was finalized                                           *)
(*   t = "NULL"    the NULL sentinel                                       *)
(***************************************************************************)
Names == {1, 2}

Attr(t, cls, name, order, rebind, ret, pos) ==
    [t |-> t, cls |-> cls, name |-> name, order |-> order,
     rebind |-> rebind, ret |-> ret, pos |-> pos]

NoAttr == Attr("absent", 0, 0, 0, "None", "None", 0)
NULL   == Attr("NULL", 0, 0, 0, "None", "None", 0)
Plain(cls, name) == Attr("plain", cls, name, 0, "None", "None", 0)
Repl(cls, name, pos) == Attr("repl", cls, name, 0, "None", "None", pos)

EmptyDict == [name \in Names |-> NoAttr]

ObjectCls   == 1
BWObjectCls == 2

InitialClasses ==
    << [bases |-> <<>>, mro |-> <<ObjectCls>>, dict |-> EmptyDict,
        setup |-> "None", hascallbacks |-> FALSE, bwcallbacks |-> <<>>],
       [bases |-> <<ObjectCls>>, mro |-> <<BWObjectCls, ObjectCls>>,
        dict |-> EmptyDict,
        setup |-> "bwsetup", hascallbacks |-> FALSE, bwcallbacks |-> <<>>] >>

Elems(s) == {s[i] : i \in 1 .. Len(s)}
Reversed(s) == [i \in 1 .. Len(s) |-> s[Len(s) + 1 - i]]

\* The C3 merge that computes cls.__mro__; <<0>> when no linearization
\* exists.
RECURSIVE C3Merge(_)
C3Merge(seqs) ==
    LET rest  == SelectSeq(seqs, LAMBDA q : Len(q) > 0)
        heads == {i \in 1 .. Len(rest) :
                     \A j \in 1 .. Len(rest) :
                         Head(rest[i]) \notin Elems(Tail(rest[j]))}
    IN  IF Len(rest) = 0 THEN <<>>
        ELSE IF heads = {} THEN <<0>>
        ELSE LET i == CHOOSE x \in heads : \A y \in heads : x <= y
                 h == Head(rest[i])
             IN  <<h>> \o C3Merge([k \in 1 .. Len(rest) |->
                          IF Head(rest[k]) = h THEN Tail(rest[k])
                                               ELSE rest[k]])

\* cls.__mro__ of a new class cls with the given bases.
Mro(cls, bases, clss) ==
    <<cls>> \o C3Merge([i \in 1 .. Len(bases) |-> clss[bases[i]].mro]
                       \o <<bases>>)

\* getattr(cls, name) for a class with the given __mro__: the attribute
\* of the first class of the MRO that has it, NoAttr for AttributeError.
RECURSIVE GetAttr(_, _, _, _)
GetAttr(mro, i, name, clss) ==
    IF i > Len(mro) THEN NoAttr
    ELSE IF clss[mro[i]].dict[name].t # "absent"
         THEN clss[mro[i]].dict[name]
         ELSE GetAttr(mro, i + 1, name, clss)

\* getattr(base, '__bwcallbacks__', ())
RECURSIVE GetCallbacks(_, _, _)
GetCallbacks(mro, i, clss) ==
    IF i > Len(mro) THEN <<>>
    ELSE IF clss[mro[i]].hascallbacks
         THEN clss[mro[i]].bwcallbacks
         ELSE GetCallbacks(mro, i + 1, clss)

\* A callback record (sequence, name, fn); fn is the __bwbind__ of the
\* binder self, or its __bwrebind__ function.
Callback(sequence, name, self, variant) ==
    [sequence |-> sequence, name |-> name,
     fn |-> [self |-> self, variant |-> variant]]

\* The order of callbacks.sort(): tuples compare by sequence, then name.
\* A comparison that ignores the sequence numbers.
BeforeByName(a, b) == a.name <= b.name

Before(a, b) ==
    \/ a.sequence < b.sequence
    \/ a.sequence = b.sequence /\ a.name <= b.name

RECURSIVE Sorted(_)
Sorted(S) ==
    IF S = {} THEN <<>>
    ELSE LET m == CHOOSE x \in S : \A y \in S : Before(x, y)
         IN  <<m>> \o Sorted(S \ {m})

\* The scan for local binders: one callback for every attribute of the
\* class's own namespace that has __bwbind__, sorted.
LocalCallbacks(dict) ==
    Sorted({Callback(dict[name].order, name, dict[name], "bind") :
               name \in {n \in Names : dict[n].t = "binder"}})

\* The classes whose __bwcallbacks__ are examined for rebinding.
\* A walk that stops at the direct base class.
RebindDirectBases(mro) == SubSeq(mro, 1, IF Len(mro) < 2 THEN Len(mro) ELSE 2)

RebindBases(mro) == mro

\* The extension with the binders of the base classes: every callback of
\* a class of the MRO that is not yet in callbacks and whose function has
\* __bwrebind__ is appended with its rebind function.
RECURSIVE ExtendFrom(_, _, _)
ExtendFrom(callbacks, inherited, j) ==
    IF j > Len(inherited) THEN callbacks
    ELSE LET callback == inherited[j]
             rebind   == callback.fn.self.rebind
         IN  IF callback \notin Elems(callbacks) /\ rebind # "None"
             THEN ExtendFrom(
                     Append(callbacks,
                            Callback(callback.sequence, callback.name,
                                     callback.fn.self,
                                     IF rebind = "True"
                                     THEN callback.fn.variant
                                     ELSE "rebind")),
                     inherited, j + 1)
             ELSE ExtendFrom(callbacks, inherited, j + 1)

RECURSIVE Extend(_, _, _, _)
Extend(callbacks, bases, i, clss) ==
    IF i > Len(bases) THEN callbacks
    ELSE Extend(ExtendFrom(callbacks,
                           GetCallbacks(clss[bases[i]].mro, 1, clss), 1),
                bases, i + 1, clss)

\* What one call fn(cls, name, value) returns.
Replacement(fn, cls, name, pos) ==
    CASE fn.self.ret = "None" -> NoAttr
      [] fn.self.ret = "NULL" -> NULL
      [] OTHER -> Repl(cls, name, pos)

\* A lookup that always gives the default.
MetainfoGetDefault(metainfo, name, default) == default

\* metainfo.get(name, default): the replacement kept for the name, else
\* the default.
MetainfoGet(metainfo, name, default) ==
    IF metainfo[name].t # "absent" THEN metainfo[name] ELSE default

\* The loop that applies the callbacks.  metainfo maps a name to the last
\* replacement returned for it (NoAttr: none); executed records every
\* call, with the value it was given and the attribute the class had at
\* that moment; the loop ends with raised when getattr(cls, name) fails.
RECURSIVE ApplyCallbacks(_, _, _, _, _, _)
ApplyCallbacks(callbacks, i, cls, clss, metainfo, executed) ==
    IF i > Len(callbacks)
    THEN [metainfo |-> metainfo, executed |-> executed, raised |-> FALSE]
    ELSE LET cb    == callbacks[i]
             value == MetainfoGet(metainfo, cb.name,
                                  GetAttr(clss[cls].mro, 1, cb.name, clss))
             found == GetAttr(clss[cls].mro, 1, cb.name, clss).t # "absent"
             replacement == Replacement(cb.fn, cls, cb.name, i)
         IN  IF ~found
             THEN [metainfo |-> metainfo, executed |-> executed,
                   raised |-> TRUE]
             ELSE ApplyCallbacks(callbacks, i + 1, cls, clss,
                    IF replacement.t # "absent"
                    THEN [metainfo EXCEPT ![cb.name] = replacement]
                    ELSE metainfo,
                    Append(executed,
                           [sequence |-> cb.sequence, name |-> cb.name,
                            fn |-> cb.fn, cls |-> cls, value |-> value,
                            attr |-> GetAttr(clss[cls].mro, 1, cb.name,
                                             clss),
                            replacement |-> replacement]))

\* The update of the class for one entry of metainfo: delattr for NULL,
\* setattr otherwise.
Update(dict, name, value) ==
    IF value.t = "NULL"
    THEN [dict EXCEPT ![name] = NoAttr]
    ELSE [dict EXCEPT ![name] = value]

\* delattr(cls, name) raises AttributeError when the class's own namespace
\* has no such name.
UpdateRaises(dict, metainfo) ==
    \E name \in Names : metainfo[name].t = "NULL" /\ dict[name].t = "absent"

\* The module's __bwsetup__(cls, base), which BWObject holds: the class
\* cls as it is left, with what was executed and whether it raised.
BWSetup(cls, clss) ==
    LET local == LocalCallbacks(clss[cls].dict)
        c1    == [clss EXCEPT ![cls].hascallbacks = TRUE,
                              ![cls].bwcallbacks = local]
        callbacks == Extend(local, RebindBases(c1[cls].mro), 1, c1)
        applied == ApplyCallbacks(callbacks, 1, cls, c1, EmptyDict, <<>>)
        raised == applied.raised
                    \/ UpdateRaises(c1[cls].dict, applied.metainfo)
        dict == [name \in Names |->
                    IF applied.metainfo[name].t = "absent"
                    THEN c1[cls].dict[name]
                    ELSE Update(c1[cls].dict, name,
                                applied.metainfo[name])[name]]
    IN  [classes |-> IF raised THEN c1 ELSE [c1 EXCEPT ![cls].dict = dict],
         executed |-> applied.executed,
         raised |-> raised]

\* The order in which BWMeta.__init__ visits the classes of the MRO.
\* A visit in MRO order, subclass first.
SetupOrderForward(mro) == mro

SetupOrder(mro) == Reversed(mro)

\* The loop of BWMeta.__init__: every __bwsetup__ found in the own
\* namespace of a class of the MRO is called with cls; setups records the
\* classes whose __bwsetup__ was called.
RECURSIVE RunSetups(_, _, _, _)
RunSetups(order, i, cls, st) ==
    IF i > Len(order) \/ st.raised THEN st
    ELSE LET fn == st.classes[order[i]].setup
         IN  CASE fn = "None" -> RunSetups(order, i + 1, cls, st)
               [] fn = "user" ->
                    RunSetups(order, i + 1, cls,
                        [st EXCEPT !.setups = Append(@, order[i])])
               [] fn = "bwsetup" ->
                    LET r == BWSetup(cls, st.classes)
                    IN  RunSetups(order, i + 1, cls,
                            [classes |-> r.classes,
                             setups |-> Append(st.setups, order[i]),
                             executed |-> r.executed,
                             raised |-> r.raised])

\* What a class body may bind to a name: nothing, a plain value, or a
\* binder with its __bwbindorder__, its __bwrebind__ and the return value
\* of its callbacks.
Absent == [t |-> "absent", order |-> 0, rebind |-> "None", ret |-> "None"]
Declarations ==
    {Absent,
     [t |-> "plain", order |-> 0, rebind |-> "None", ret |-> "None"],
     [t |-> "binder", order |-> 0, rebind |-> "None", ret |-> "value"],
     [t |-> "binder", order |-> 0, rebind |-> "None", ret |-> "NULL"],
     [t |-> "binder", order |-> 0, rebind |-> "True", ret |-> "value"],
     [t |-> "binder", order |-> 1, rebind |-> "fn", ret |-> "None"],
     [t |-> "binder", order |-> 1, rebind |-> "True", ret |-> "NULL"]}

\* Most classes that are created besides object and BWObject.
MaxClasses == 3

NoCreation ==
    [cls |-> 0, raised |-> FALSE, setups |-> <<>>, executed |-> <<>>,
     body |-> EmptyDict, mro |-> <<>>]

\* The statement 'class C(bases): body': type creates the class, then
\* BWMeta.__init__ runs the __bwsetup__ functions.  A class whose creation
\* raises is never bound to a name and is dropped.
CreateClass(bases, body, setup) ==
    LET cls  == Len(classes) + 1
        mro  == Mro(cls, bases, classes)
        dict == [name \in Names |->
                    IF body[name].t = "absent" THEN NoAttr
                    ELSE Attr(body[name].t, cls, name, body[name].order,
                              body[name].rebind, body[name].ret, 0)]
        new  == [bases |-> bases, mro |-> mro, dict |-> dict,
                 setup |-> setup, hascallbacks |-> FALSE,
                 bwcallbacks |-> <<>>]
    IN  /\ Len(classes) < MaxClasses + Len(InitialClasses)
        /\ 0 \notin Elems(mro)
        /\ \E done \in {RunSetups(SetupOrder(mro), 1, cls,
                                   [classes |-> Append(classes, new),
                                    setups |-> <<>>, executed |-> <<>>,
                                    raised |-> FALSE])} :
              /\ classes' = IF done.raised THEN classes ELSE done.classes
              /\ created' = [cls |-> IF done.raised THEN 0 ELSE cls,
                             raised |-> done.raised,
                             setups |-> done.setups,
                             executed |-> done.executed,
                             body |-> dict, mro |-> mro]

\* A class statement with one base class, the class created last.
\* Its body binds any declaration to the first name and a choice of them
\* to the second.
DefineSubclass ==
    /\ \E d1 \in Declarations,
          d2 \in {d \in Declarations : d.rebind # "True" /\ d.ret # "NULL"
                                          /\ d.t # "plain"} :
          CreateClass(<<Len(classes)>>,
                      [name \in Names |-> IF name = 1 THEN d1 ELSE d2],
                      "None")
    /\ UNCHANGED exceptClass

ClassNext == DefineSubclass

\* The user classes that exist.
UserClasses == (Len(InitialClasses) + 1) .. Len(classes)

\* The base lists of a class statement: one or two existing classes that
\* derive from BWObject.
BaseLists ==
    {<<b>> : b \in {BWObjectCls} \cup UserClasses}
    \cup {<<p[1], p[2]>> : p \in {q \in UserClasses \X UserClasses :
                                     q[1] # q[2]}}

\* A class statement with one or two base classes, with or without a
\* __bwsetup__ of its own; its body binds a binder to the first name or
\* nothing.
DefineClass ==
    /\ \E bases \in BaseLists, setup \in {"None", "user"},
          d1 \in {d \in Declarations : d.ret = "None"} :
          CreateClass(bases,
                      [name \in Names |-> IF name = 1 THEN d1 ELSE Absent],
                      setup)
    /\ UNCHANGED exceptClass

SetupNext == DefineClass

(***************************************************************************)
(* bw/bwobject.py and bw/bwmember.py: members with a builder               *)
(*                                                                         *)
(* One class declares one member, name = MEMBER(list, builder=list) or     *)
(* name = CONST(list, builder=list), with the BWMember of bw/bwobject.py   *)
(* or of bw/bwmember.py (mdecl), and has one instance (minst):             *)
(*   dict   the object at instance.__dict__[name], 0 when there is none    *)
(*   desc   the object at descriptor.__dict__[name], 0 when there is none  *)
(* mheap holds the lists that exist, named by their index, each as the     *)
(* number of its items.  mtrace records the accesses: the operation, the   *)
(* object it returned or stored, the length the object then had, and how   *)
(* many times the builder ran.                                             *)
(***************************************************************************)
MemberDecls ==
    {[module |-> m, kind |-> k] :
        m \in {"bwobject", "bwmember"}, k \in {"MEMBER", "CONST"}}

NewInstance == [dict |-> 0, desc |-> 0]

\* make_getter: the member is lazy because its default is a builder, so
\* the descriptor has __get__.
HasGetter(decl) == TRUE

\* make_setter: BWConstMember makes none.
HasSetter(decl) == decl.kind = "MEMBER"

\* BUILDER(list): 'lambda s: _name()' makes a new empty list.
Builder(heap) == [obj |-> Len(heap) + 1, heap |-> Append(heap, 0)]

\* The generated getter, 'return <builder>(target)'; the cacher that
\* bw/bwmember.py wraps around it for BWConstMember keeps the object in the
\* descriptor's own __dict__.
Getter(decl, inst, heap) ==
    LET b == Builder(heap)
    IN  [obj |-> b.obj, heap |-> b.heap, built |-> 1,
         inst |-> IF decl.module = "bwmember" /\ decl.kind = "CONST"
                  THEN [inst EXCEPT !.desc = b.obj]
                  ELSE inst]

\* instance.name: a descriptor with __get__ and __set__ is asked first,
\* then the instance's __dict__, then a descriptor with __get__ alone.
GetMember(decl, inst, heap) ==
    IF HasGetter(decl) /\ HasSetter(decl) THEN Getter(decl, inst, heap)
    ELSE IF inst.dict # 0
         THEN [obj |-> inst.dict, heap |-> heap, built |-> 0, inst |-> inst]
         ELSE Getter(decl, inst, heap)

\* Most accesses to the member.
MaxOps == 4

\* x = instance.name
MRead ==
    /\ Len(mtrace) < MaxOps
    /\ \E g \in {GetMember(mdecl, minst, mheap)} :
          /\ minst' = g.inst
          /\ mheap' = g.heap
          /\ mtrace' = Append(mtrace, [op |-> "read", obj |-> g.obj,
                                       len |-> g.heap[g.obj],
                                       built |-> g.built])
    /\ UNCHANGED <<mdecl>>
    /\ UNCHANGED exceptMember

\* instance.name.append(item)
MAppend ==
    /\ Len(mtrace) < MaxOps
    /\ \E g \in {GetMember(mdecl, minst, mheap)} :
          /\ minst' = g.inst
          /\ mheap' = [g.heap EXCEPT ![g.obj] = @ + 1]
          /\ mtrace' = Append(mtrace, [op |-> "append", obj |-> g.obj,
                                       len |-> g.heap[g.obj] + 1,
                                       built |-> g.built])
    /\ UNCHANGED <<mdecl>>
    /\ UNCHANGED exceptMember

\* instance.name = [item]: the generated setter accepts the list and
\* stores it in the instance's __dict__; without a setter the instance's
\* own setattr stores it there.
MWrite ==
    /\ Len(mtrace) < MaxOps
    /\ mheap' = Append(mheap, 1)
    /\ minst' = [minst EXCEPT !.dict = Len(mheap) + 1]
    /\ mtrace' = Append(mtrace, [op |-> "write", obj |-> Len(mheap) + 1,
                                 len |-> 1, built |-> 0])
    /\ UNCHANGED <<mdecl>>
    /\ UNCHANGED exceptMember

MemberNext == MRead \/ MAppend \/ MWrite

(***************************************************************************)
(* bw/bwobject.py: assignment to a member                                  *)
(*                                                                         *)
(* One class declares one member, name = MEMBER(given, into=into), where   *)
(* given is int or str and into holds up to MaxInto conversions (sdecl).   *)
(* sdict is the entry of the instance's __dict__ for the member, Unset     *)
(* when there is none, and slast records the last assignment: the value    *)
(* assigned and whether the setter raised.                                 *)
(* The conversions are the types int and str and three functions: Word     *)
(* returns the string, Zero returns 0, Refuse raises ValueError.  int of   *)
(* the string, which is not numeric, raises ValueError.                    *)
(***************************************************************************)
Unset == 0 - 1

IntoTypes == {"int_type", "str_type"}
IntoFunctions == {"Word", "Zero", "Refuse"}

\* A conversion as the object held in into.
Into(name) == BWNode("into", <<>>, <<name>>, <<>>)

\* into(value): the value returned, or raised for TypeError or ValueError.
Convert(into, value) ==
    LET name == into.types[1]
    IN  CASE name = "int_type" ->
                [raised |-> value = StrVal, value |-> value]
          [] name = "str_type" -> [raised |-> FALSE, value |-> StrVal]
          [] name = "Word"     -> [raised |-> FALSE, value |-> StrVal]
          [] name = "Zero"     -> [raised |-> FALSE, value |-> 0]
          [] OTHER             -> [raised |-> TRUE, value |-> value]

\* BWMember.__init__ and init: the member is a BWAnyConstraint of the
\* constraints given and, when into holds types, of ISA(*types).
Member(decl) ==
    LET types == SelectSeq(decl.into, LAMBDA x : x.types[1] \in IntoTypes)
        extra == IF Len(types) = 0 THEN <<>>
                 ELSE <<BWTypeConstraint([i \in 1 .. Len(types) |->
                                             types[i].types[1]])>>
    IN  BWManyConstraint("BWAnyConstraint",
                         <<BWRawType(decl.given)>> \o extra)

\* BWMember.build_setter: the body of 'def set_name(self, target, value):'
build_setter(decl) ==
    inline(Member(decl), SuccessFactory, ErrorFactory(decl.into), <<>>).code

\* Running the body of a setter: st holds value, the entry of
\* target.__dict__, and whether an exception left the function.
RECURSIVE RunSetter(_, _, _)
RunSetter(code, i, st) ==
    IF i > Len(code) \/ st.raised THEN st
    ELSE LET stmt == code[i]
             next == i + 1
         IN  CASE stmt.op = "store" ->
                    RunSetter(code, next, [st EXCEPT !.dict = st.value])
               [] stmt.op = "raise" -> [st EXCEPT !.raised = TRUE]
               [] stmt.op = "if" ->
                    RunSetter(code, next,
                        IF bwcheck(stmt.c, st.value)
                        THEN RunSetter(stmt.body, 1, st)
                        ELSE RunSetter(stmt.orelse, 1, st))
               [] stmt.op = "ifnot" ->
                    RunSetter(code, next,
                        IF ~bwcheck(stmt.c, st.value)
                        THEN RunSetter(stmt.body, 1, st)
                        ELSE st)
               [] stmt.op = "try" ->
                    LET r == Convert(stmt.c, st.value)
                    IN  RunSetter(code, next,
                            IF r.raised
                            THEN RunSetter(stmt.orelse, 1, st)
                            ELSE RunSetter(stmt.body, 1,
                                           [st EXCEPT !.value = r.value]))
               [] OTHER -> st

\* Most conversions in into.
MaxInto == 2

IntoLists ==
    UNION {[1 .. n -> {Into(x) : x \in IntoTypes \cup IntoFunctions}] :
              n \in 0 .. MaxInto}

SetterDecls ==
    {[given |-> g, into |-> i] : g \in IntoTypes, i \in IntoLists}

\* instance.name = value
SSet ==
    /\ \E value \in Values :
          \E st \in {RunSetter(build_setter(sdecl), 1,
                               [value |-> value, dict |-> sdict,
                                raised |-> FALSE])} :
              /\ sdict' = st.dict
              /\ slast' = [value |-> value, raised |-> st.raised]
    /\ UNCHANGED <<sdecl>>
    /\ UNCHANGED exceptSetter

SetterNext == SSet

(***************************************************************************)
(* bullwinkle/bwmember.py                                                  *)
(*                                                                         *)
(* One instance with one member declared with member(isa, default=...,     *)
(* builder=..., ro=..., optional=...).  A Python object is a record        *)
(* [kind, val, type]: a plain value, a type, a function or the exception   *)
(* class AttributeError.                                                   *)
(***************************************************************************)
PyValue(v)    == [kind |-> "value", val |-> v, type |-> TypeOf(v)]
PyType(t)     == [kind |-> "type", val |-> 0, type |-> t]
\* lambda o, n: v
PyCallable(v) == [kind |-> "callable", val |-> v, type |-> "function"]
PyNone        == [kind |-> "none", val |-> 0, type |-> "NoneType"]

\* BWMember.default, the default of the class.
AttributeErrorCls == [kind |-> "exception", val |-> 0, type |-> "type"]

\* The key of the member in the __dict__ of the instance, and the name of
\* the member as a key.
TupleKey == "(name,)"
NameKey  == "name"

NoStorage == [k \in {} |-> PyNone]

\* The methods of the instance a builder can name: echo returns the default
\* it is given, fixed returns 1, and the instance has no method missing.
Builders == {"echo", "fixed", "missing"}

Method(builder, argument) ==
    IF builder = "echo" THEN argument ELSE PyValue(1)

\* BWMember.init
Optional(decl) ==
    IF decl.optional # "None"
    THEN decl.optional = "True"
    ELSE decl.default # AttributeErrorCls \/ decl.builder # "None"

\* The checker of one type: isinstance(_v, type).
checkset(decl, value) == value.kind = "value" /\ value.type = decl.isa

\* BWMember.__initobj__: the __dict__ and the exception raised.
initobj(decl, dict, value) ==
    IF checkset(decl, value)
    THEN [dict |-> [k \in DOMAIN dict \cup {TupleKey} |->
                       IF k = TupleKey THEN value ELSE dict[k]],
          raised |-> ""]
    ELSE [dict |-> dict, raised |-> "TypeError"]

\* default() of a type that is not an exception.
Instantiate(t) == PyValue(IF t = "str_type" THEN StrVal ELSE 0)

\* obj as the reader resolves it from the default.
Resolve(default) ==
    CASE default.kind = "exception" -> default
      [] default.kind = "type"      -> Instantiate(default.type)
      [] default.kind = "callable"  -> PyValue(default.val)
      [] OTHER                      -> default

\* The reader of BWMember.get_reader: the __dict__ afterwards, the object
\* returned, the exception raised and the argument of the builder method.
reader(decl, dict) ==
    IF TupleKey \in DOMAIN dict
    THEN [dict |-> dict, obj |-> dict[TupleKey], raised |-> "",
          called |-> FALSE, arg |-> PyNone]
    ELSE LET default == decl.default
             builder == decl.builder
             called  == builder \in Builders \ {"missing"}
             obj     == IF called
                        THEN Method(builder, default)
                        ELSE Resolve(default)
             init    == initobj(decl, dict, obj)
         IN  IF builder = "missing"
             THEN [dict |-> dict, obj |-> PyNone, raised |-> "TypeError",
                   called |-> FALSE, arg |-> PyNone]
             ELSE IF obj.kind = "exception"
             THEN [dict |-> dict, obj |-> PyNone,
                   raised |-> "AttributeError",
                   called |-> called, arg |-> default]
             ELSE [dict |-> init.dict,
                   obj |-> IF init.raised = "" THEN obj ELSE PyNone,
                   raised |-> init.raised,
                   called |-> called, arg |-> default]

\* BWMember.get_writer
writer(decl, dict, value) ==
    IF decl.ro
    THEN [dict |-> dict, raised |-> "AttributeError"]
    ELSE initobj(decl, dict, value)

\* The key the deleter looks for.
DeleterKeyByName == NameKey
DeleterKey == TupleKey

\* BWMember.get_deleter
deleter(decl, dict) ==
    IF decl.ro
    THEN [dict |-> dict, raised |-> "AttributeError"]
    ELSE IF DeleterKey \in DOMAIN dict
    THEN [dict |-> [k \in DOMAIN dict \ {DeleterKey} |-> dict[k]],
          raised |-> ""]
    ELSE [dict |-> dict, raised |-> "AttributeError"]

PropDefaults ==
    {AttributeErrorCls}
        \cup {PyValue(v) : v \in Values}
        \cup {PyType(t) : t \in {"int_type", "str_type"}}
        \cup {PyCallable(v) : v \in Values}

PropDecls ==
    {[isa |-> t, default |-> d, builder |-> b, ro |-> r, optional |-> o] :
        t \in {"int_type", "str_type"}, d \in PropDefaults,
        b \in Builders \cup {"None"}, r \in BOOLEAN,
        o \in {"None", "True"}}

\* The __dict__ of a new instance: the constructor stores the value it is
\* given for the member, and it must be given one when the member is
\* required.
Constructed(decl) ==
    {initobj(decl, NoStorage, PyValue(v)).dict :
        v \in {w \in Values : checkset(decl, PyValue(w))}}
        \cup (IF Optional(decl) THEN {NoStorage} ELSE {})

\* instance.name
PRead ==
    /\ \E r \in {reader(pdecl, pdict)} :
          /\ pdict' = r.dict
          /\ plast' = [op |-> "read", raised |-> r.raised, obj |-> r.obj,
                       called |-> r.called, arg |-> r.arg,
                       stored |-> TupleKey \in DOMAIN pdict]
    /\ UNCHANGED <<pdecl>>
    /\ UNCHANGED exceptProp

\* instance.name = value
PWrite ==
    /\ \E value \in Values :
          \E r \in {writer(pdecl, pdict, PyValue(value))} :
              /\ pdict' = r.dict
              /\ plast' = [op |-> "write", raised |-> r.raised,
                           obj |-> PyValue(value),
                           called |-> FALSE, arg |-> PyNone,
                           stored |-> TupleKey \in DOMAIN pdict]
    /\ UNCHANGED <<pdecl>>
    /\ UNCHANGED exceptProp

\* del instance.name
PDelete ==
    /\ \E r \in {deleter(pdecl, pdict)} :
          /\ pdict' = r.dict
          /\ plast' = [op |-> "delete", raised |-> r.raised, obj |-> PyNone,
                       called |-> FALSE, arg |-> PyNone,
                       stored |-> TupleKey \in DOMAIN pdict]
    /\ UNCHANGED <<pdecl>>
    /\ UNCHANGED exceptProp

PropNext == PRead \/ PWrite \/ PDelete

(***************************************************************************)
(* bw/bwobject.py: BWMember.delegate                                       *)
(*                                                                         *)
(* An outer object with a member inner and inner_label =                   *)
(* inner.delegate('label', cache=dcache).  douter is the __dict__ of the   *)
(* outer object: the entry of the name of the delegate and the entry       *)
(* 'alias', the name cached() stores results under.  dinner is the label   *)
(* of the nested object, a member that takes integers.                     *)
(***************************************************************************)
\* fn.__name__ if name is None else name, for cached(alias).
CachedName == "alias"

\* The descriptor delegate() returns: the class cached() makes has __get__
\* only, a property made of a getter alone has no setter.
DelegateDescriptor(cache) ==
    [get |-> TRUE, set |-> FALSE,
     name |-> IF cache THEN CachedName ELSE "property"]

\* alias(target): getattr(getattr(target, self.name), gateway)
alias(inner) == inner

\* outer.inner_label
DRead ==
    /\ \E d \in {DelegateDescriptor(dcache)} :
          IF douter.delegate # Unset /\ ~d.set
          THEN \* the entry of the instance hides a descriptor without __set__
               /\ douter' = douter
               /\ dlast' = [op |-> "read", value |-> douter.delegate,
                            raised |-> FALSE]
          ELSE /\ douter' = IF dcache
                            THEN [douter EXCEPT !.alias = alias(dinner)]
                            ELSE douter
               /\ dlast' = [op |-> "read", value |-> alias(dinner),
                            raised |-> FALSE]
    /\ UNCHANGED <<dcache, dinner>>
    /\ UNCHANGED exceptDelegate

\* outer.inner_label = value
DWrite ==
    /\ \E value \in IntVals : \E d \in {DelegateDescriptor(dcache)} :
          IF d.name = "property"
          THEN \* AttributeError: can't set attribute
               /\ douter' = douter
               /\ dlast' = [op |-> "write", value |-> value,
                            raised |-> TRUE]
          ELSE /\ douter' = [douter EXCEPT !.delegate = value]
               /\ dlast' = [op |-> "write", value |-> value,
                            raised |-> FALSE]
    /\ UNCHANGED <<dcache, dinner>>
    /\ UNCHANGED exceptDelegate

\* outer.inner.label = value
DWriteInner ==
    /\ \E value \in IntVals :
          /\ dinner' = value
          /\ dlast' = [op |-> "inner", value |-> value, raised |-> FALSE]
    /\ UNCHANGED <<dcache, douter>>
    /\ UNCHANGED exceptDelegate

DelegateNext == DRead \/ DWrite \/ DWriteInner

(***************************************************************************)
(* bw/bwobject.py: BWSmartObject and the constructor it generates          *)
(*                                                                         *)
(* kclasses[1] is BWSmartObject, every other class derives from one class  *)
(* of kclasses and declares at most one member.  A class is a record       *)
(*   base       the base class, 0 for BWSmartObject                        *)
(*   inline     __bwinit_inline__, the members whose setup_member it holds *)
(*   bwinit     the __bwinit__ entry of the class                          *)
(*   generated  the number of times its constructor was generated          *)
(* A member is [name, required, default]: default is "NULL" or "value".    *)
(***************************************************************************)
MemberNames == {1, 2}

SmartMembers ==
    {[name |-> n, required |-> r, default |-> d] :
        n \in MemberNames, r \in BOOLEAN, d \in {"NULL", "value"}}

\* The function __bwsetup__ stores on cls, with cls in its closure.
WrapperFor(cls) ==
    [kind |-> "wrapper", cls |-> cls,
     args |-> <<>>, kwargs |-> <<>>, body |-> <<>>]

EmptyBlock == [args |-> <<>>, kwargs |-> <<>>, body |-> <<>>]

\* setup_member of a member that is not lazy and has no delegates, without
\* the distinction of required members.
setup_member_optional(blk, m) ==
    [args   |-> blk.args,
     kwargs |-> [n \in DOMAIN blk.kwargs \cup {m.name} |->
                    IF n = m.name THEN "NULL" ELSE blk.kwargs[n]],
     body   |-> Append(blk.body, m.name)]

\* setup_member of a member that is not lazy and has no delegates.
setup_member(blk, m) ==
    [args   |-> IF m.required /\ m.default = "NULL"
                THEN Append(blk.args, m.name) ELSE blk.args,
     kwargs |-> IF m.required /\ m.default = "NULL"
                THEN blk.kwargs
                ELSE [n \in DOMAIN blk.kwargs \cup {m.name} |->
                        IF n = m.name
                        THEN (IF m.required THEN m.default ELSE "NULL")
                        ELSE blk.kwargs[n]],
     body   |-> Append(blk.body, m.name)]

\* BWMeta.__make_bwinit__: every callback of inline in turn.
RECURSIVE make_bwinit(_, _, _)
make_bwinit(callbacks, i, blk) ==
    IF i > Len(callbacks)
    THEN blk
    ELSE make_bwinit(callbacks, i + 1, setup_member(blk, callbacks[i]))

\* def __bwinit__(_self, args..., name=default..., **_kw) is a function
\* when no parameter is named twice.
Compiles(blk) ==
    /\ \A i, j \in DOMAIN blk.args : blk.args[i] = blk.args[j] => i = j
    /\ \A i \in DOMAIN blk.args : blk.args[i] \notin DOMAIN blk.kwargs

\* The class whose __bwinit__ an instance of cls finds.
RECURSIVE BwinitOwner(_, _)
BwinitOwner(cs, cls) ==
    IF cs[cls].bwinit.kind # "none" \/ cs[cls].base = 0
    THEN cls
    ELSE BwinitOwner(cs, cs[cls].base)

\* The body of the generated function from statement i on: the members
\* assigned and the exception raised.  The setter of a member refuses NULL.
RECURSIVE RunBody(_, _, _, _)
RunBody(fn, given, i, assigned) ==
    IF i > Len(fn.body)
    THEN [assigned |-> assigned, raised |-> ""]
    ELSE IF fn.body[i] \notin given /\ fn.kwargs[fn.body[i]] = "NULL"
    THEN [assigned |-> assigned, raised |-> "TypeError"]
    ELSE RunBody(fn, given, i + 1, Append(assigned, fn.body[i]))

\* A call of the generated function with keyword arguments for the names
\* of given: an argument without a default that is not given is a
\* TypeError of the call.
CallBwinit(fn, given) ==
    IF \E i \in DOMAIN fn.args : fn.args[i] \notin given
    THEN [assigned |-> <<>>, raised |-> "TypeError"]
    ELSE RunBody(fn, given, 1, <<>>)

\* The members of a class by name: the last declaration of a name.
Effective(callbacks, n) ==
    LET at == {i \in DOMAIN callbacks : callbacks[i].name = n}
    IN  IF at = {} THEN {}
        ELSE {callbacks[CHOOSE i \in at : \A j \in at : j <= i]}

\* A required member without default is not among the names given.
MissesRequired(callbacks, given) ==
    \E n \in MemberNames \ given : \E m \in Effective(callbacks, n) :
        m.required /\ m.default = "NULL"

\* Most classes derived from BWSmartObject, most generations of one
\* constructor.
MaxSmart == 2
MaxGen   == 2

SmartInitial ==
    <<[base |-> 0, inline |-> <<>>, bwinit |-> WrapperFor(1),
       generated |-> 0]>>

\* class C(base): name = BWMember(...)
\* BWObject.__bwsetup__ binds the member, which adds its setup_member to
\* the __bwinit_inline__ the class inherits; BWSmartObject.__bwsetup__
\* stores the wrapper on the class.
KDefine ==
    /\ Len(kclasses) < MaxSmart + 1
    /\ \E base \in DOMAIN kclasses :
       \E steps \in {<<>>} \cup {<<m>> : m \in SmartMembers} :
          kclasses' = Append(kclasses,
              [base |-> base,
               inline |-> kclasses[base].inline \o steps,
               bwinit |-> WrapperFor(Len(kclasses) + 1),
               generated |-> 0])
    /\ klast' = [op |-> "class", cls |-> Len(kclasses) + 1, given |-> {},
                 before |-> "none", generated |-> FALSE,
                 assigned |-> <<>>, raised |-> ""]
    /\ UNCHANGED exceptSmart

\* cls(**given): BWSmartObject.__init__ calls _self.__bwinit__.
KNew ==
    /\ \E cls \in DOMAIN kclasses : \E given \in SUBSET MemberNames :
       \E owner \in {BwinitOwner(kclasses, cls)} :
       \E found \in {kclasses[owner].bwinit} :
          IF found.kind = "wrapper"
          THEN \E blk \in {make_bwinit(kclasses[found.cls].inline, 1,
                                       EmptyBlock)} :
                 /\ kclasses[found.cls].generated < MaxGen
                 /\ IF Compiles(blk)
                    THEN \E fn \in {[kind |-> "compiled",
                                     cls |-> found.cls,
                                     args |-> blk.args,
                                     kwargs |-> blk.kwargs,
                                     body |-> blk.body]} :
                         \E cs \in {[kclasses EXCEPT
                                       ![found.cls].bwinit = fn,
                                       ![found.cls].generated = @ + 1]} :
                         \E r \in {CallBwinit(
                                     cs[BwinitOwner(cs, cls)].bwinit,
                                     given)} :
                            /\ kclasses' = cs
                            /\ klast' = [op |-> "new", cls |-> cls,
                                         given |-> given,
                                         before |-> "wrapper",
                                         generated |-> TRUE,
                                         assigned |-> r.assigned,
                                         raised |-> r.raised]
                    ELSE /\ kclasses' = [kclasses EXCEPT
                                           ![found.cls].generated = @ + 1]
                         /\ klast' = [op |-> "new", cls |-> cls,
                                      given |-> given,
                                      before |-> "wrapper",
                                      generated |-> TRUE,
                                      assigned |-> <<>>,
                                      raised |-> "EvalError"]
          ELSE \E r \in {CallBwinit(found, given)} :
                 /\ kclasses' = kclasses
                 /\ klast' = [op |-> "new", cls |-> cls, given |-> given,
                              before |-> "compiled", generated |-> FALSE,
                              assigned |-> r.assigned, raised |-> r.raised]
    /\ UNCHANGED exceptSmart

SmartNext == KDefine \/ KNew

(***************************************************************************)
(* bw/bwobject.py: type families and deferred type constraints             *)
(*                                                                         *)
(* rfamilies[1] is BWObject and rfamilies[2] is BWSmartObject; every other *)
(* family derives from one family.  A family is a record                   *)
(*   base   the base class, 0 for BWObject                                 *)
(*   types  the dict that is its __dict__['__bwtypes__'], an index of      *)
(*          rdicts, 0 when it has none                                     *)
(*   own    the registrations made through this family                     *)
(* A dict maps a name to the class registered, 0 when the name is absent.  *)
(* rcons is one constraint Family.ISA(name): its registry, its name, the   *)
(* converted_values entry of its __dict__ (0 when absent) and the class    *)
(* the first check that resolved the name found.                           *)
(***************************************************************************)
\* The names looked up, and the names classes get registered under.
TypeNames  == {"Thing", "UnknownType"}
Registered == {"Thing"}

\* The classes that get registered; an object is an instance of one.
Targets == {1, 2}

NoTypes == [n \in TypeNames |-> 0]

\* BWSmartObject has __bwtypes__ = BWObject.__bwtypes__: the dict that
\* cached() made for BWObject and stored on it.
RegistryInitial ==
    <<[base |-> 0, types |-> 1, own |-> NoTypes],
      [base |-> 1, types |-> 1, own |-> NoTypes]>>

\* cls.__mro__ of a family.
RECURSIVE FamilyMro(_, _)
FamilyMro(fs, f) ==
    IF f = 0 THEN <<>> ELSE <<f>> \o FamilyMro(fs, fs[f].base)

\* BWMeta.__getitem__ from position i of the MRO on: the class found, 0
\* for KeyError.
RECURSIVE GetItemFrom(_, _, _, _, _)
GetItemFrom(fs, ds, mro, i, name) ==
    IF i > Len(mro)
    THEN 0
    ELSE IF fs[mro[i]].types # 0 /\ ds[fs[mro[i]].types][name] # 0
    THEN ds[fs[mro[i]].types][name]
    ELSE GetItemFrom(fs, ds, mro, i + 1, name)

GetItem(fs, ds, f, name) == GetItemFrom(fs, ds, FamilyMro(fs, f), 1, name)

\* What converted_values leaves in the __dict__ of the constraint.
NotCached(cons, value) == cons
Cached(cons, value) == [cons EXCEPT !.converted = value]

\* Most families, BWObject and BWSmartObject among them.
MaxFamilies == 3

\* class Family(base): pass
RFamily ==
    /\ Len(rfamilies) < MaxFamilies
    /\ \E base \in DOMAIN rfamilies :
          rfamilies' = Append(rfamilies,
                          [base |-> base, types |-> 0, own |-> NoTypes])
    /\ rlast' = [op |-> "class", family |-> Len(rfamilies) + 1,
                 name |-> "Thing", obj |-> 0, before |-> 0, result |-> 0,
                 raised |-> FALSE]
    /\ UNCHANGED <<rdicts, rcons>>
    /\ UNCHANGED exceptRegistry

\* Family.register(target, name)
RRegister ==
    /\ \E f \in DOMAIN rfamilies, name \in Registered, target \in Targets :
          /\ IF rfamilies[f].types = 0
             THEN /\ rdicts' = Append(rdicts,
                                  [NoTypes EXCEPT ![name] = target])
                  /\ rfamilies' = [rfamilies EXCEPT
                                     ![f].types = Len(rdicts) + 1,
                                     ![f].own[name] = target]
             ELSE /\ rdicts' = [rdicts EXCEPT
                                  ![rfamilies[f].types][name] = target]
                  /\ rfamilies' = [rfamilies EXCEPT
                                     ![f].own[name] = target]
          /\ rlast' = [op |-> "register", family |-> f, name |-> name,
                       obj |-> target, before |-> 0, result |-> target,
                       raised |-> FALSE]
    /\ UNCHANGED <<rcons>>
    /\ UNCHANGED exceptRegistry

\* Family[name]
RGetItem ==
    /\ \E f \in DOMAIN rfamilies, name \in TypeNames :
       \E found \in {GetItem(rfamilies, rdicts, f, name)} :
          rlast' = [op |-> "getitem", family |-> f, name |-> name,
                    obj |-> 0, before |-> 0, result |-> found,
                    raised |-> found = 0]
    /\ UNCHANGED <<rfamilies, rdicts, rcons>>
    /\ UNCHANGED exceptRegistry

\* rcons = Family.ISA(name)
RISA ==
    /\ \E f \in DOMAIN rfamilies, name \in TypeNames :
          /\ rcons' = [registry |-> f, name |-> name, converted |-> 0,
                       first |-> 0]
          /\ rlast' = [op |-> "ISA", family |-> f, name |-> name,
                       obj |-> 0, before |-> 0, result |-> 0,
                       raised |-> FALSE]
    /\ UNCHANGED <<rfamilies, rdicts>>
    /\ UNCHANGED exceptRegistry

\* obj in rcons, for an instance obj of a class of Targets:
\* isinstance(obj, self.converted_values)
RCheck ==
    /\ \E obj \in Targets :
       \E values \in {IF rcons.converted # 0
                      THEN rcons.converted
                      ELSE GetItem(rfamilies, rdicts,
                                   rcons.registry, rcons.name)} :
          /\ rcons' = IF values = 0
                      THEN rcons
                      ELSE [Cached(rcons, values) EXCEPT
                              !.first = IF @ = 0 THEN values ELSE @]
          /\ rlast' = [op |-> "check", family |-> rcons.registry,
                       name |-> rcons.name, obj |-> obj,
                       before |-> rcons.first,
                       result |-> IF obj = values THEN 1 ELSE 0,
                       raised |-> values = 0]
    /\ UNCHANGED <<rfamilies, rdicts>>
    /\ UNCHANGED exceptRegistry

RegistryNext == RFamily \/ RRegister \/ RGetItem \/ RISA \/ RCheck

(***************************************************************************)
(* bw/bwobject.py: BWRole                                                  *)
(*                                                                         *)
(* A role is [base, declared]: its base role (0 for BWRole) and the names  *)
(* it declares with BWRole.required_method('ctx').  orequires is           *)
(* BWRole.__bwrequires__, each entry the attrcheck of a role and a name.   *)
(* A type is [base, attrs, roles]: attrs gives for each name what getattr  *)
(* finds on the type ("absent", a method "noctx" that does not accept      *)
(* ctx, a method "ctx" that does), roles is its __bwroles__.  oinst is one *)
(* object: its class and the attributes set on the object itself.         *)
(***************************************************************************)
MethodNames == {"paint", "sing"}

\* The names of a set in the order they are bound.
NamesInOrder(names) ==
    (IF "paint" \in names THEN <<"paint">> ELSE <<>>)
        \o (IF "sing" \in names THEN <<"sing">> ELSE <<>>)

\* BWRole.requires as required_method calls it: cls is the class
\* required_method was called on, BWRole, for every role.
requires(bwrequires, role, names) ==
    bwrequires \o [i \in DOMAIN NamesInOrder(names) |->
                      [role |-> role, name |-> NamesInOrder(names)[i]]]

\* The requirements apply runs: those of role.__dict__, which
\* required_method never fills, then those getattr finds on each base,
\* which for every role are those of BWRole.
Requirements(bwrequires, role) == bwrequires

\* getattr that looks at the class alone.
GetAttrOfClass(inst, types, name) == types[inst.cls].attrs[name]

\* getattr(target, name, NULL) on an object: its own attribute, or else
\* the attribute of its class.
GetAttrOf(inst, types, name) ==
    IF inst.attrs[name] # "absent"
    THEN inst.attrs[name]
    ELSE types[inst.cls].attrs[name]

\* The first requirement in order that raises for the attributes checked,
\* 0 when none does.
FirstFailing(reqs, attrs) ==
    LET failing == {i \in DOMAIN reqs : attrs[reqs[i].name] # "ctx"}
    IN  IF failing = {} THEN 0
        ELSE CHOOSE i \in failing : \A j \in failing : i <= j

\* A subtype without the role in its __bwroles__.
RoledPlain(types, target, role) ==
    [base |-> target, attrs |-> types[target].attrs,
     roles |-> types[target].roles]

\* type(target.__name__, (target,), dict(roledict, __bwroles__=roles))
Roled(types, target, role) ==
    [base |-> target, attrs |-> types[target].attrs,
     roles |-> <<role>> \o types[target].roles]

\* obj in Role, for an instance of a type.
InRole(types, t, role) ==
    \E i \in DOMAIN types[t].roles : types[t].roles[i] = role

\* Most roles, most types.
MaxRoles == 2
MaxTypes == 2

\* class R(base): name = BWRole.required_method('ctx') for each name
ODefineRole ==
    /\ Len(oroles) < MaxRoles
    /\ \E base \in {0} \cup DOMAIN oroles, names \in SUBSET MethodNames :
          /\ oroles' = Append(oroles, [base |-> base, declared |-> names])
          /\ orequires' = requires(orequires, Len(oroles) + 1, names)
          /\ olast' = [op |-> "role", role |-> Len(oroles) + 1,
                       target |-> 0, raised |-> 0, created |-> FALSE]
    /\ UNCHANGED <<otypes, oinst>>
    /\ UNCHANGED exceptRole

\* Role.apply(target) for a type
OApplyType ==
    /\ Len(otypes) < MaxTypes
    /\ \E role \in DOMAIN oroles, target \in DOMAIN otypes :
       \E bad \in {FirstFailing(Requirements(orequires, role),
                                otypes[target].attrs)} :
          /\ otypes' = IF bad = 0
                       THEN Append(otypes, Roled(otypes, target, role))
                       ELSE otypes
          /\ olast' = [op |-> "type", role |-> role, target |-> target,
                       raised |-> bad, created |-> bad = 0]
    /\ UNCHANGED <<oroles, orequires, oinst>>
    /\ UNCHANGED exceptRole

\* Role.apply(obj) for the object
OApplyInstance ==
    /\ Len(otypes) < MaxTypes
    /\ \E role \in DOMAIN oroles :
       \E bad \in {FirstFailing(Requirements(orequires, role),
                      [n \in MethodNames |-> GetAttrOf(oinst, otypes, n)])} :
          /\ otypes' = IF bad = 0
                       THEN Append(otypes, Roled(otypes, oinst.cls, role))
                       ELSE otypes
          /\ oinst' = IF bad = 0
                      THEN [oinst EXCEPT !.cls = Len(otypes) + 1]
                      ELSE oinst
          /\ olast' = [op |-> "instance", role |-> role,
                       target |-> oinst.cls, raised |-> bad,
                       created |-> bad = 0]
    /\ UNCHANGED <<oroles, orequires>>
    /\ UNCHANGED exceptRole

\* obj.name = lambda ctx: ...
OSetAttr ==
    /\ \E name \in MethodNames, value \in {"ctx"} :
          /\ oinst.attrs[name] # value
          /\ oinst' = [oinst EXCEPT !.attrs[name] = value]
          /\ olast' = [op |-> "setattr", role |-> 0, target |-> oinst.cls,
                       raised |-> 0, created |-> FALSE]
    /\ UNCHANGED <<oroles, orequires, otypes>>
    /\ UNCHANGED exceptRole

RoleNext == ODefineRole \/ OApplyType \/ OApplyInstance \/ OSetAttr

(***************************************************************************)
(* bw/util/wrapper.py: cached and Volatile                                 *)
(*                                                                         *)
(* One object whose class has the attribute "load" made by cached(fn).     *)
(* cdecl.fname is fn.__name__: "load" for a method decorated with @cached, *)
(* another name for a function stored under an attribute of another name.  *)
(* cdict is the __dict__ of the object, Unset where it has no entry.  The  *)
(* function answers each call with a value, with Volatile(value) or by     *)
(* raising Volatile(value).                                                *)
(***************************************************************************)
\* A getter that keeps every result.
getter_keeps_all(decl, dict, kind, value) ==
    [dict |-> [dict EXCEPT ![decl.fname] = value], obj |-> value]

\* getter of cached: the __dict__ afterwards and the value read, when the
\* function answers with value in the way of kind.
getter(decl, dict, kind, value) ==
    IF kind = "plain"
    THEN [dict |-> [dict EXCEPT ![decl.fname] = value], obj |-> value]
    ELSE [dict |-> dict, obj |-> value]

\* Most calls of the function.
MaxCalls == 3

\* obj.load: the class made by cached has __get__ only, so an entry of the
\* __dict__ under the attribute's name is what the read returns.
CRead ==
    /\ IF cdict["load"] # Unset
       THEN /\ clast' = [op |-> "read", called |-> FALSE, kind |-> "stored",
                         obj |-> cdict["load"], before |-> cdict["load"]]
            /\ UNCHANGED <<cdict, ccalls>>
       ELSE /\ ccalls < MaxCalls
            /\ \E kind \in {"plain", "returned", "raised"}, value \in Values :
               \E r \in {getter(cdecl, cdict, kind, value)} :
                  /\ cdict' = r.dict
                  /\ ccalls' = ccalls + 1
                  /\ clast' = [op |-> "read", called |-> TRUE, kind |-> kind,
                               obj |-> r.obj, before |-> Unset]
    /\ UNCHANGED <<cdecl>>
    /\ UNCHANGED exceptCached

CachedNext == CRead

(***************************************************************************)
(* bw/util/code.py: CodeBlock and the source text it generates             *)
(*                                                                         *)
(* A text is a sequence of tokens: " " is white space at either end and    *)
(* ":" the block-opening token.  No text is None (or the empty string).    *)
(* An item of a block is a string (one statement), a tuple of items or a   *)
(* nested block; a block has a statement (its header) and a list of items. *)
(* A generated line carries its indentation, its text, the path of indices *)
(* from the root to the item that produced it, and what it is: a header,   *)
(* a statement of a child or a "pass".                                     *)
(***************************************************************************)
NoText == <<>>
PassText == <<"pass">>

Str(text) == [kind |-> "str", text |-> text]
Tuple(items) == [kind |-> "tuple", items |-> items]
Block(statement, items) ==
    [kind |-> "block", statement |-> statement, items |-> items]

Line(prefix, text, path, what) ==
    [indent |-> prefix, text |-> text, path |-> path, what |-> what]

\* str.strip of a text.
RECURSIVE strip(_)
strip(text) ==
    IF text = <<>> THEN text
    ELSE IF Head(text) = " " THEN strip(Tail(text))
    ELSE IF text[Len(text)] = " " THEN strip(SubSeq(text, 1, Len(text) - 1))
    ELSE text

\* str.endswith(':').
endswith_colon(text) == text # <<>> /\ text[Len(text)] = ":"

\* A prefix that grows under every header.
deeper_always(prefix, statement) == prefix + 4

\* The prefix of the lines under a stripped header: prefix += '    ' when
\* the header ends with ':'.
deeper(prefix, statement) ==
    IF endswith_colon(statement) THEN prefix + 4 ELSE prefix

\* emit of generate: the lines of item under the header statement, at the
\* indentation prefix.  A block generates itself at the prefix it is given;
\* a tuple, a list and the list iterator of a block emit their items in
\* order; a string is one line.
RECURSIVE emit(_, _, _, _)
emit(item, statement, prefix, path) ==
    IF statement # NoText
    THEN LET st == strip(statement)
             body == emit(item, NoText, deeper(prefix, st), path)
         IN  <<Line(prefix, st, path, "header")>> \o
             (IF body = <<>>
              THEN <<Line(deeper(prefix, st), PassText, path, "pass")>>
              ELSE body)
    ELSE IF item.kind = "block"
    THEN emit(Tuple(item.items), item.statement, prefix, path)
    ELSE IF item.kind = "tuple"
    THEN LET RECURSIVE each(_)
             each(i) == IF i > Len(item.items) THEN <<>>
                        ELSE emit(item.items[i], NoText, prefix,
                                  Append(path, i)) \o each(i + 1)
         IN  each(1)
    ELSE <<Line(prefix, item.text, path, "child")>>

\* CodeBlock.generate.
generate(blk, prefix) == emit(Tuple(blk.items), blk.statement, prefix, <<>>)

\* list.append on the block at path below node.
RECURSIVE AppendAt(_, _, _)
AppendAt(node, path, item) ==
    IF path = <<>> THEN [node EXCEPT !.items = Append(@, item)]
    ELSE [node EXCEPT !.items[Head(path)] = AppendAt(@, Tail(path), item)]

\* The item at path below node.
RECURSIVE ItemAt(_, _)
ItemAt(node, path) ==
    IF path = <<>> THEN node ELSE ItemAt(node.items[Head(path)], Tail(path))

\* The number of items of a tree, itself included.
RECURSIVE Items(_)
Items(node) ==
    IF node.kind = "str" THEN 1
    ELSE LET RECURSIVE sum(_)
             sum(i) == IF i > Len(node.items) THEN 0
                       ELSE Items(node.items[i]) + sum(i + 1)
         IN  1 + sum(1)

\* The statements given to CodeBlock, block and add, and the strings
\* appended.
Headers == {NoText, <<"def f()", ":">>, <<"x = 1">>,
            <<" ", "if x", ":", " ">>}
Statements == {<<"y = 2">>, <<"else", ":">>}

\* Most items of a tree and most blocks open inside one another.
MaxItems == 4
MaxDepth == 2

\* blk.append(item) on the open block: a string or a tuple of two strings.
GAppend ==
    /\ Items(gtree) < MaxItems
    /\ \E item \in {Str(t) : t \in Statements} \cup
                   {Tuple(<<Str(<<"y = 2">>), Str(<<"else", ":">>)>>),
                    Tuple(<<>>)} :
          /\ Items(gtree) + Items(item) <= MaxItems
          /\ gtree' = AppendAt(gtree, gcursor, item)
          /\ glast' = [op |-> "append"]
    /\ UNCHANGED <<gcursor, glines>>
    /\ UNCHANGED exceptCode

\* blk.block(statement) on the open block, entered by with: the new block
\* is appended and becomes the open block.
GBlock ==
    /\ Items(gtree) < MaxItems
    /\ Len(gcursor) < MaxDepth
    /\ \E statement \in Headers :
          /\ gtree' = AppendAt(gtree, gcursor, Block(statement, <<>>))
          /\ gcursor' = Append(gcursor,
                               Len(ItemAt(gtree, gcursor).items) + 1)
          /\ glast' = [op |-> "block"]
    /\ UNCHANGED <<glines>>
    /\ UNCHANGED exceptCode

\* blk.add(statement) on the open block: a block when there is no statement
\* or the statement, as given, ends with ':', else an appended string.
GAdd ==
    /\ Items(gtree) < MaxItems
    /\ \E statement \in Headers :
          IF statement = NoText \/ endswith_colon(statement)
          THEN /\ Len(gcursor) < MaxDepth
               /\ gtree' = AppendAt(gtree, gcursor, Block(statement, <<>>))
               /\ gcursor' = Append(gcursor,
                                    Len(ItemAt(gtree, gcursor).items) + 1)
               /\ glast' = [op |-> "add"]
          ELSE /\ gtree' = AppendAt(gtree, gcursor, Str(statement))
               /\ gcursor' = gcursor
               /\ glast' = [op |-> "add"]
    /\ UNCHANGED <<glines>>
    /\ UNCHANGED exceptCode

\* The end of a with statement: the enclosing block is the open block again.
GExit ==
    /\ gcursor # <<>>
    /\ gcursor' = SubSeq(gcursor, 1, Len(gcursor) - 1)
    /\ glast' = [op |-> "exit"]
    /\ UNCHANGED <<gtree, glines>>
    /\ UNCHANGED exceptCode

\* list(blk.generate()) of the root block.
GGenerate ==
    /\ glines' = generate(gtree, 0)
    /\ glast' = [op |-> "generate"]
    /\ UNCHANGED <<gtree, gcursor>>
    /\ UNCHANGED exceptCode

CodeNext == GAppend \/ GBlock \/ GAdd \/ GExit \/ GGenerate

(***************************************************************************)
(* bw/bwobject.py: concurrent first instantiations of one class            *)
(*                                                                         *)
(* One class derived from BWSmartObject with the members of tinline.       *)
(* tbwinit is the __bwinit__ entry of the class and tgenerated counts the  *)
(* constructors generated and compiled for it.  Every thread instantiates  *)
(* the class once; the interpreter may switch threads between any two      *)
(* steps.  tpc is the position of a thread:                                *)
(*   "new"       before _self.__bwinit__ is looked up in __init__          *)
(*   "wrapper"   in the wrapper, before the constructor is generated       *)
(*   "extracted" fnblk.extract returned, before cls.__bwinit__ is assigned *)
(*   "stored"    before the last statement of the wrapper                  *)
(*   "done"      the instantiation returned or raised                      *)
(* tfn is the function the thread generated and tres what its call left.   *)
(***************************************************************************)
MaxThreads == 2
Threads == 1 .. MaxThreads

NoFn == [kind |-> "none", cls |-> 0,
         args |-> <<>>, kwargs |-> <<>>, body |-> <<>>]
NoResult == [given |-> {}, by |-> "none", assigned |-> <<>>, raised |-> ""]

\* BWSmartObject.__init__: the lookup of _self.__bwinit__ and, when it is
\* the compiled constructor, its call.
TInit(t) ==
    /\ tpc[t] = "new"
    /\ \E given \in SUBSET MemberNames :
          IF tbwinit.kind = "wrapper"
          THEN /\ tpc' = [tpc EXCEPT ![t] = "wrapper"]
               /\ tres' = [tres EXCEPT ![t].given = given]
          ELSE \E r \in {CallBwinit(tbwinit, given)} :
                  /\ tpc' = [tpc EXCEPT ![t] = "done"]
                  /\ tres' = [tres EXCEPT ![t] =
                                 [given |-> given, by |-> "compiled",
                                  assigned |-> r.assigned,
                                  raised |-> r.raised]]
    /\ UNCHANGED <<tinline, tbwinit, tgenerated, tfn>>
    /\ UNCHANGED exceptThread

\* The wrapper up to fnblk.extract('__bwinit__'): the constructor is
\* generated from the step list and compiled.
TGenerate(t) ==
    /\ tpc[t] = "wrapper"
    /\ \E blk \in {make_bwinit(tinline, 1, EmptyBlock)} :
          /\ tgenerated' = tgenerated + 1
          /\ IF Compiles(blk)
             THEN /\ tfn' = [tfn EXCEPT ![t] =
                                [kind |-> "compiled", cls |-> 1,
                                 args |-> blk.args, kwargs |-> blk.kwargs,
                                 body |-> blk.body]]
                  /\ tpc' = [tpc EXCEPT ![t] = "extracted"]
                  /\ tres' = tres
             ELSE /\ tfn' = tfn
                  /\ tpc' = [tpc EXCEPT ![t] = "done"]
                  /\ tres' = [tres EXCEPT ![t].raised = "EvalError"]
    /\ UNCHANGED <<tinline, tbwinit>>
    /\ UNCHANGED exceptThread

\* bwinit = cls.__bwinit__ = fnblk.extract('__bwinit__')
TStore(t) ==
    /\ tpc[t] = "extracted"
    /\ tbwinit' = tfn[t]
    /\ tpc' = [tpc EXCEPT ![t] = "stored"]
    /\ UNCHANGED <<tinline, tgenerated, tfn, tres>>
    /\ UNCHANGED exceptThread

\* The last statement of the wrapper: the call of _self.__bwinit__.
TCall(t) ==
    /\ tpc[t] = "stored"
    /\ \E r \in {CallBwinit(tbwinit, tres[t].given)} :
          tres' = [tres EXCEPT ![t] =
                      [given |-> @.given, by |-> tbwinit.kind,
                       assigned |-> r.assigned, raised |-> r.raised]]
    /\ tpc' = [tpc EXCEPT ![t] = "done"]
    /\ UNCHANGED <<tinline, tbwinit, tgenerated, tfn>>
    /\ UNCHANGED exceptThread

ThreadNext ==
    \E t \in Threads : TInit(t) \/ TGenerate(t) \/ TStore(t) \/ TCall(t)

(***************************************************************************)
(* bullwinkle/bwmember.py: the checker of a member and __initobj__         *)
(*                                                                         *)
(* idecl is the isa of one member: a sequence of checks, each a type or a  *)
(* converter made by into(fn, *isa).  A converter has the function it      *)
(* calls, its __type__ ("None" when fn is not a type) and its __from__.    *)
(* __initobj__ is followed one call of the checker at a time: ipc is       *)
(* "idle" before a store, "loop" while a store is under way, "stored" and  *)
(* "raised" when it ended; ivalue is the value under way, idict the value  *)
(* in the __dict__ of the object and iattempts the calls of the checker.   *)
(***************************************************************************)
TypeCheck(t) == [kind |-> "type", type |-> t]

\* into(_converter, *_isa)
member_into(fn, from) ==
    [kind |-> "converter", fn |-> fn,
     type |-> IF fn \in {"int_type", "str_type"} THEN fn ELSE "None",
     from |-> from]

\* _converter(_v): int and str are the types; ident is lambda v: v, zero
\* is lambda v: 0 and next is lambda v: (v + 1) % (MaxVal + 1), which
\* raises TypeError for a string.  Unset stands for an exception.
converter(fn, v) ==
    CASE fn = "int_type" -> IF v = StrVal THEN Unset ELSE v
      [] fn = "str_type" -> StrVal
      [] fn = "ident"    -> v
      [] fn = "zero"     -> 0
      [] OTHER           -> IF v = StrVal THEN Unset
                            ELSE (v + 1) % (MaxVal + 1)

CheckerTrue  == [res |-> "True", value |-> Unset]
CheckerNone  == [res |-> "None", value |-> Unset]
CheckerTuple(v) == [res |-> "tuple", value |-> v]

\* The function that build_checker compiles from build_checker_src: the
\* checks in order, the first that answers decides.  A type answers True
\* for an instance; a converter answers True for an instance of its
\* __type__ and, for a value of its __from__ (any value when it has none)
\* that it converts without TypeError or ValueError, the tuple (_nv,).
RECURSIVE checker(_, _, _)
checker(isa, i, v) ==
    IF i > Len(isa) THEN CheckerNone
    ELSE IF isa[i].kind = "type"
    THEN IF TypeOf(v) = isa[i].type THEN CheckerTrue
         ELSE checker(isa, i + 1, v)
    ELSE IF isa[i].type # "None" /\ TypeOf(v) = isa[i].type
    THEN CheckerTrue
    ELSE IF /\ isa[i].from = <<>> \/ TypeOf(v) \in Elems(isa[i].from)
            /\ converter(isa[i].fn, v) # Unset
    THEN CheckerTuple(converter(isa[i].fn, v))
    ELSE checker(isa, i + 1, v)

\* BWMember.checkset
member_checkset(isa, v) == checker(isa, 1, v)

\* The checks a member is declared with.
Checks ==
    {TypeCheck(t) : t \in {"int_type", "str_type"}}
        \cup {member_into(fn, <<>>) :
                 fn \in {"int_type", "str_type", "ident", "zero", "next"}}
        \cup {member_into("zero", <<"str_type">>)}

ConvertDecls == {<<c>> : c \in Checks} \cup {<<c, d>> : c, d \in Checks}

\* Most calls of the checker that are counted.
MaxAttempts == 4

\* obj.name = value, or the reader storing a default: __initobj__ begins.
IBegin ==
    /\ ipc # "loop"
    /\ \E value \in Values :
          /\ ivalue' = value
          /\ ipc' = "loop"
          /\ iattempts' = 0
    /\ UNCHANGED <<idecl, idict>>
    /\ UNCHANGED exceptConvert

\* One res = self.checkset(name, value) of __initobj__ and what follows
\* it: another turn of 'while type(res) is tuple' with res[0], the store
\* in the __dict__, or the TypeError.
ICheck ==
    /\ ipc = "loop"
    /\ \E r \in {member_checkset(idecl, ivalue)} :
          /\ iattempts' = IF iattempts < MaxAttempts
                          THEN iattempts + 1 ELSE iattempts
          /\ CASE r.res = "tuple" ->
                    /\ ivalue' = r.value
                    /\ ipc' = "loop"
                    /\ idict' = idict
               [] r.res = "True" ->
                    /\ ivalue' = ivalue
                    /\ ipc' = "stored"
                    /\ idict' = ivalue
               [] OTHER ->
                    /\ ivalue' = ivalue
                    /\ ipc' = "raised"
                    /\ idict' = idict
    /\ UNCHANGED <<idecl>>
    /\ UNCHANGED exceptConvert

ConvertNext == IBegin \/ ICheck

(***************************************************************************)
(* bw/bwobject.py: constructor steps under multiple inheritance            *)
(*                                                                         *)
(* xclasses[1] is BWSmartObject; every other class has one or two base     *)
(* classes and declares at most one member.  A class is a record           *)
(*   bases      its base classes                                           *)
(*   mro        its __mro__                                                *)
(*   declares   the members its body declares, each with its owner         *)
(*   hasinline  whether its own namespace holds __bwinit_inline__          *)
(*   inline     that tuple                                                 *)
(*   bwinit     the __bwinit__ entry of the class                          *)
(***************************************************************************)
MultiInitial ==
    <<[bases |-> <<>>, mro |-> <<1>>, declares |-> <<>>,
       hasinline |-> TRUE, inline |-> <<>>, bwinit |-> WrapperFor(1)]>>

\* Every step of every class of the MRO, own class first.
RECURSIVE InlineOfAll(_, _, _)
InlineOfAll(cs, mro, i) ==
    IF i > Len(mro) THEN <<>>
    ELSE InlineOfAll(cs, mro, i + 1) \o cs[mro[i]].declares

\* cls.__bwinit_inline__ for a class with the given __mro__: the tuple of
\* the first class of the MRO that has one in its namespace.
RECURSIVE GetInline(_, _, _)
GetInline(cs, mro, i) ==
    IF i > Len(mro) THEN <<>>
    ELSE IF cs[mro[i]].hasinline THEN cs[mro[i]].inline
    ELSE GetInline(cs, mro, i + 1)

\* BWMeta.__make_bwinit__ of a class.
StepsOf(cs, cls) == GetInline(cs, cs[cls].mro, 1)

\* The members the bodies of the classes declare.
MultiMembers ==
    {[name |-> n, required |-> r, default |-> "NULL"] :
        n \in MemberNames, r \in BOOLEAN}

\* Most classes besides BWSmartObject.
MaxMulti == 3

\* type(name, bases, typedict) with the members of steps in typedict:
\* BWObject.__bwsetup__ binds each member, whose init_inline sets
\* cls.__bwinit_inline__ to the inherited tuple plus its step, and
\* BWSmartObject.__bwsetup__ stores the wrapper.
NewClass(bases, steps) ==
    LET cls == Len(xclasses) + 1
        mro == Mro(cls, bases, xclasses)
        own == [i \in DOMAIN steps |->
                   [name |-> steps[i].name, required |-> steps[i].required,
                    default |-> steps[i].default, owner |-> cls]]
    IN  /\ Len(xclasses) < MaxMulti + 1
        /\ 0 \notin Elems(mro)
        /\ xclasses' = Append(xclasses,
              [bases |-> bases, mro |-> mro, declares |-> own,
               hasinline |-> steps # <<>>,
               inline |-> IF steps = <<>> THEN <<>>
                          ELSE GetInline(xclasses, Tail(mro), 1) \o own,
               bwinit |-> WrapperFor(cls)])

\* class D(bases): name = MEMBER(...)
XDefine ==
    /\ \E b1 \in DOMAIN xclasses, b2 \in DOMAIN xclasses \cup {0} :
       \E steps \in {<<>>} \cup {<<m>> : m \in MultiMembers} :
          /\ b1 # b2
          /\ NewClass(IF b2 = 0 THEN <<b1>> ELSE <<b1, b2>>, steps)
          /\ xlast' = [op |-> "class", cls |-> Len(xclasses) + 1,
                       given |-> {}, assigned |-> <<>>, raised |-> ""]
    /\ UNCHANGED exceptMulti

\* B + C of BWMeta.__add__ for two types.
XAdd ==
    /\ \E b1, b2 \in DOMAIN xclasses :
          /\ b1 # b2
          /\ NewClass(<<b1, b2>>, <<>>)
          /\ xlast' = [op |-> "add", cls |-> Len(xclasses) + 1,
                       given |-> {}, assigned |-> <<>>, raised |-> ""]
    /\ UNCHANGED exceptMulti

\* cls(**given): the wrapper of the class generates the constructor from
\* cls.__bwinit_inline__ on the first instantiation.
XNew ==
    /\ \E cls \in DOMAIN xclasses : \E given \in SUBSET MemberNames :
       \E found \in {xclasses[cls].bwinit} :
          IF found.kind = "wrapper"
          THEN \E blk \in {make_bwinit(StepsOf(xclasses, cls), 1,
                                       EmptyBlock)} :
                 IF Compiles(blk)
                 THEN \E fn \in {[kind |-> "compiled", cls |-> cls,
                                  args |-> blk.args, kwargs |-> blk.kwargs,
                                  body |-> blk.body]} :
                      \E r \in {CallBwinit(fn, given)} :
                         /\ xclasses' = [xclasses EXCEPT ![cls].bwinit = fn]
                         /\ xlast' = [op |-> "new", cls |-> cls,
                                      given |-> given,
                                      assigned |-> r.assigned,
                                      raised |-> r.raised]
                 ELSE /\ xclasses' = xclasses
                      /\ xlast' = [op |-> "new", cls |-> cls,
                                   given |-> given, assigned |-> <<>>,
                                   raised |-> "EvalError"]
          ELSE \E r \in {CallBwinit(found, given)} :
                 /\ xclasses' = xclasses
                 /\ xlast' = [op |-> "new", cls |-> cls, given |-> given,
                              assigned |-> r.assigned, raised |-> r.raised]
    /\ UNCHANGED exceptMulti

MultiNext == XDefine \/ XAdd \/ XNew

(***************************************************************************)
(* The specifications.                                                     *)
(***************************************************************************)
SpecUtilInit ==
    /\ uc1 \in UtilLeaves
    /\ uc2 \in UtilOperands
    /\ uop = "init"
    /\ ures = uc1
    /\ bc1 = NEVER /\ bc2 = NEVER /\ bop = "idle" /\ bres = NEVER
    /\ classes = InitialClasses /\ created = NoCreation
    /\ minst = <<>> /\ mdecl = <<>> /\ mtrace = <<>> /\ mheap = <<>>
    /\ sdecl = <<>> /\ sdict = <<>> /\ slast = <<>>
    /\ pdecl = <<>> /\ pdict = <<>> /\ plast = <<>>
    /\ dcache = <<>> /\ douter = <<>> /\ dinner = <<>> /\ dlast = <<>>
    /\ kclasses = <<>> /\ klast = <<>>
    /\ rfamilies = <<>> /\ rdicts = <<>> /\ rcons = <<>> /\ rlast = <<>>
    /\ oroles = <<>> /\ orequires = <<>> /\ otypes = <<>> /\ oinst = <<>> /\ olast = <<>>
    /\ cdecl = <<>> /\ cdict = <<>> /\ ccalls = <<>> /\ clast = <<>>
    /\ gtree = <<>> /\ gcursor = <<>> /\ glines = <<>> /\ glast = <<>>
    /\ tinline = <<>> /\ tbwinit = <<>> /\ tgenerated = <<>> /\ tpc = <<>>
    /\ tfn = <<>> /\ tres = <<>>
    /\ idecl = <<>> /\ idict = <<>> /\ ivalue = <<>> /\ ipc = <<>>
    /\ iattempts = <<>>
    /\ xclasses = <<>> /\ xlast = <<>>

SpecUtil == SpecUtilInit /\ [][UtilNext]_vars

SpecBWInit ==
    /\ bc1 \in BWLeaves
    /\ bc2 \in BWOperands
    /\ bop = "init"
    /\ bres = bc1
    /\ uc1 = Constraint("NeverConstraint", <<>>)
    /\ uc2 = Constraint("NeverConstraint", <<>>)
    /\ uop = "idle"
    /\ ures = Constraint("NeverConstraint", <<>>)
    /\ classes = InitialClasses /\ created = NoCreation
    /\ minst = <<>> /\ mdecl = <<>> /\ mtrace = <<>> /\ mheap = <<>>
    /\ sdecl = <<>> /\ sdict = <<>> /\ slast = <<>>
    /\ pdecl = <<>> /\ pdict = <<>> /\ plast = <<>>
    /\ dcache = <<>> /\ douter = <<>> /\ dinner = <<>> /\ dlast = <<>>
    /\ kclasses = <<>> /\ klast = <<>>
    /\ rfamilies = <<>> /\ rdicts = <<>> /\ rcons = <<>> /\ rlast = <<>>
    /\ oroles = <<>> /\ orequires = <<>> /\ otypes = <<>> /\ oinst = <<>> /\ olast = <<>>
    /\ cdecl = <<>> /\ cdict = <<>> /\ ccalls = <<>> /\ clast = <<>>
    /\ gtree = <<>> /\ gcursor = <<>> /\ glines = <<>> /\ glast = <<>>
    /\ tinline = <<>> /\ tbwinit = <<>> /\ tgenerated = <<>> /\ tpc = <<>>
    /\ tfn = <<>> /\ tres = <<>>
    /\ idecl = <<>> /\ idict = <<>> /\ ivalue = <<>> /\ ipc = <<>>
    /\ iattempts = <<>>
    /\ xclasses = <<>> /\ xlast = <<>>

SpecBW == SpecBWInit /\ [][BWNext]_vars

SpecClassInit ==
    /\ classes = InitialClasses /\ created = NoCreation
    /\ uc1 = Constraint("NeverConstraint", <<>>)
    /\ uc2 = Constraint("NeverConstraint", <<>>)
    /\ uop = "idle"
    /\ ures = Constraint("NeverConstraint", <<>>)
    /\ bc1 = NEVER /\ bc2 = NEVER /\ bop = "idle" /\ bres = NEVER
    /\ minst = <<>> /\ mdecl = <<>> /\ mtrace = <<>> /\ mheap = <<>>
    /\ sdecl = <<>> /\ sdict = <<>> /\ slast = <<>>
    /\ pdecl = <<>> /\ pdict = <<>> /\ plast = <<>>
    /\ dcache = <<>> /\ douter = <<>> /\ dinner = <<>> /\ dlast = <<>>
    /\ kclasses = <<>> /\ klast = <<>>
    /\ rfamilies = <<>> /\ rdicts = <<>> /\ rcons = <<>> /\ rlast = <<>>
    /\ oroles = <<>> /\ orequires = <<>> /\ otypes = <<>> /\ oinst = <<>> /\ olast = <<>>
    /\ cdecl = <<>> /\ cdict = <<>> /\ ccalls = <<>> /\ clast = <<>>
    /\ gtree = <<>> /\ gcursor = <<>> /\ glines = <<>> /\ glast = <<>>
    /\ tinline = <<>> /\ tbwinit = <<>> /\ tgenerated = <<>> /\ tpc = <<>>
    /\ tfn = <<>> /\ tres = <<>>
    /\ idecl = <<>> /\ idict = <<>> /\ ivalue = <<>> /\ ipc = <<>>
    /\ iattempts = <<>>
    /\ xclasses = <<>> /\ xlast = <<>>

\* Chains of classes with members that bind.
SpecClass == SpecClassInit /\ [][ClassNext]_vars

\* Class hierarchies with __bwsetup__ functions.
SpecSetup == SpecClassInit /\ [][SetupNext]_vars

SpecMemberInit ==
    /\ mdecl \in MemberDecls
    /\ minst = NewInstance /\ mtrace = <<>> /\ mheap = <<>>
    /\ sdecl = <<>> /\ sdict = <<>> /\ slast = <<>>
    /\ uc1 = Constraint("NeverConstraint", <<>>)
    /\ uc2 = Constraint("NeverConstraint", <<>>)
    /\ uop = "idle"
    /\ ures = Constraint("NeverConstraint", <<>>)
    /\ bc1 = NEVER /\ bc2 = NEVER /\ bop = "idle" /\ bres = NEVER
    /\ classes = InitialClasses /\ created = NoCreation
    /\ pdecl = <<>> /\ pdict = <<>> /\ plast = <<>>
    /\ dcache = <<>> /\ douter = <<>> /\ dinner = <<>> /\ dlast = <<>>
    /\ kclasses = <<>> /\ klast = <<>>
    /\ rfamilies = <<>> /\ rdicts = <<>> /\ rcons = <<>> /\ rlast = <<>>
    /\ oroles = <<>> /\ orequires = <<>> /\ otypes = <<>> /\ oinst = <<>> /\ olast = <<>>
    /\ cdecl = <<>> /\ cdict = <<>> /\ ccalls = <<>> /\ clast = <<>>
    /\ gtree = <<>> /\ gcursor = <<>> /\ glines = <<>> /\ glast = <<>>
    /\ tinline = <<>> /\ tbwinit = <<>> /\ tgenerated = <<>> /\ tpc = <<>>
    /\ tfn = <<>> /\ tres = <<>>
    /\ idecl = <<>> /\ idict = <<>> /\ ivalue = <<>> /\ ipc = <<>>
    /\ iattempts = <<>>
    /\ xclasses = <<>> /\ xlast = <<>>

\* One instance of a class with one member that has a builder.
SpecMember == SpecMemberInit /\ [][MemberNext]_vars

SpecSetterInit ==
    /\ sdecl \in SetterDecls
    /\ sdict = Unset /\ slast = [value |-> Unset, raised |-> FALSE]
    /\ uc1 = Constraint("NeverConstraint", <<>>)
    /\ uc2 = Constraint("NeverConstraint", <<>>)
    /\ uop = "idle"
    /\ ures = Constraint("NeverConstraint", <<>>)
    /\ bc1 = NEVER /\ bc2 = NEVER /\ bop = "idle" /\ bres = NEVER
    /\ classes = InitialClasses /\ created = NoCreation
    /\ minst = <<>> /\ mdecl = <<>> /\ mtrace = <<>> /\ mheap = <<>>
    /\ pdecl = <<>> /\ pdict = <<>> /\ plast = <<>>
    /\ dcache = <<>> /\ douter = <<>> /\ dinner = <<>> /\ dlast = <<>>
    /\ kclasses = <<>> /\ klast = <<>>
    /\ rfamilies = <<>> /\ rdicts = <<>> /\ rcons = <<>> /\ rlast = <<>>
    /\ oroles = <<>> /\ orequires = <<>> /\ otypes = <<>> /\ oinst = <<>> /\ olast = <<>>
    /\ cdecl = <<>> /\ cdict = <<>> /\ ccalls = <<>> /\ clast = <<>>
    /\ gtree = <<>> /\ gcursor = <<>> /\ glines = <<>> /\ glast = <<>>
    /\ tinline = <<>> /\ tbwinit = <<>> /\ tgenerated = <<>> /\ tpc = <<>>
    /\ tfn = <<>> /\ tres = <<>>
    /\ idecl = <<>> /\ idict = <<>> /\ ivalue = <<>> /\ ipc = <<>>
    /\ iattempts = <<>>
    /\ xclasses = <<>> /\ xlast = <<>>

\* One instance of a class with one member that has conversions.
SpecSetter == SpecSetterInit /\ [][SetterNext]_vars

SpecPropInit ==
    /\ pdecl \in PropDecls
    /\ pdict \in Constructed(pdecl)
    /\ plast = [op |-> "new", raised |-> "", obj |-> PyNone,
                called |-> FALSE, arg |-> PyNone,
                stored |-> TupleKey \in DOMAIN pdict]
    /\ uc1 = Constraint("NeverConstraint", <<>>)
    /\ uc2 = Constraint("NeverConstraint", <<>>)
    /\ uop = "idle"
    /\ ures = Constraint("NeverConstraint", <<>>)
    /\ bc1 = NEVER /\ bc2 = NEVER /\ bop = "idle" /\ bres = NEVER
    /\ classes = InitialClasses /\ created = NoCreation
    /\ minst = <<>> /\ mdecl = <<>> /\ mtrace = <<>> /\ mheap = <<>>
    /\ sdecl = <<>> /\ sdict = <<>> /\ slast = <<>>
    /\ dcache = <<>> /\ douter = <<>> /\ dinner = <<>> /\ dlast = <<>>
    /\ kclasses = <<>> /\ klast = <<>>
    /\ rfamilies = <<>> /\ rdicts = <<>> /\ rcons = <<>> /\ rlast = <<>>
    /\ oroles = <<>> /\ orequires = <<>> /\ otypes = <<>> /\ oinst = <<>> /\ olast = <<>>
    /\ cdecl = <<>> /\ cdict = <<>> /\ ccalls = <<>> /\ clast = <<>>
    /\ gtree = <<>> /\ gcursor = <<>> /\ glines = <<>> /\ glast = <<>>
    /\ tinline = <<>> /\ tbwinit = <<>> /\ tgenerated = <<>> /\ tpc = <<>>
    /\ tfn = <<>> /\ tres = <<>>
    /\ idecl = <<>> /\ idict = <<>> /\ ivalue = <<>> /\ ipc = <<>>
    /\ iattempts = <<>>
    /\ xclasses = <<>> /\ xlast = <<>>

\* One instance of a class with one member of bullwinkle/bwmember.py.
SpecProp == SpecPropInit /\ [][PropNext]_vars

SpecDelegateInit ==
    /\ dcache \in BOOLEAN
    /\ dinner \in IntVals
    /\ douter = [delegate |-> Unset, alias |-> Unset]
    /\ dlast = [op |-> "new", value |-> dinner, raised |-> FALSE]
    /\ uc1 = Constraint("NeverConstraint", <<>>)
    /\ uc2 = Constraint("NeverConstraint", <<>>)
    /\ uop = "idle"
    /\ ures = Constraint("NeverConstraint", <<>>)
    /\ bc1 = NEVER /\ bc2 = NEVER /\ bop = "idle" /\ bres = NEVER
    /\ classes = InitialClasses /\ created = NoCreation
    /\ minst = <<>> /\ mdecl = <<>> /\ mtrace = <<>> /\ mheap = <<>>
    /\ sdecl = <<>> /\ sdict = <<>> /\ slast = <<>>
    /\ pdecl = <<>> /\ pdict = <<>> /\ plast = <<>>
    /\ kclasses = <<>> /\ klast = <<>>
    /\ rfamilies = <<>> /\ rdicts = <<>> /\ rcons = <<>> /\ rlast = <<>>
    /\ oroles = <<>> /\ orequires = <<>> /\ otypes = <<>> /\ oinst = <<>> /\ olast = <<>>
    /\ cdecl = <<>> /\ cdict = <<>> /\ ccalls = <<>> /\ clast = <<>>
    /\ gtree = <<>> /\ gcursor = <<>> /\ glines = <<>> /\ glast = <<>>
    /\ tinline = <<>> /\ tbwinit = <<>> /\ tgenerated = <<>> /\ tpc = <<>>
    /\ tfn = <<>> /\ tres = <<>>
    /\ idecl = <<>> /\ idict = <<>> /\ ivalue = <<>> /\ ipc = <<>>
    /\ iattempts = <<>>
    /\ xclasses = <<>> /\ xlast = <<>>

\* An outer object that delegates an attribute to a nested object.
SpecDelegate == SpecDelegateInit /\ [][DelegateNext]_vars

SpecSmartInit ==
    /\ kclasses = SmartInitial
    /\ klast = [op |-> "init", cls |-> 1, given |-> {}, before |-> "none",
                generated |-> FALSE, assigned |-> <<>>, raised |-> ""]
    /\ uc1 = Constraint("NeverConstraint", <<>>)
    /\ uc2 = Constraint("NeverConstraint", <<>>)
    /\ uop = "idle"
    /\ ures = Constraint("NeverConstraint", <<>>)
    /\ bc1 = NEVER /\ bc2 = NEVER /\ bop = "idle" /\ bres = NEVER
    /\ classes = InitialClasses /\ created = NoCreation
    /\ minst = <<>> /\ mdecl = <<>> /\ mtrace = <<>> /\ mheap = <<>>
    /\ sdecl = <<>> /\ sdict = <<>> /\ slast = <<>>
    /\ pdecl = <<>> /\ pdict = <<>> /\ plast = <<>>
    /\ dcache = <<>> /\ douter = <<>> /\ dinner = <<>> /\ dlast = <<>>
    /\ rfamilies = <<>> /\ rdicts = <<>> /\ rcons = <<>> /\ rlast = <<>>
    /\ oroles = <<>> /\ orequires = <<>> /\ otypes = <<>> /\ oinst = <<>> /\ olast = <<>>
    /\ cdecl = <<>> /\ cdict = <<>> /\ ccalls = <<>> /\ clast = <<>>
    /\ gtree = <<>> /\ gcursor = <<>> /\ glines = <<>> /\ glast = <<>>
    /\ tinline = <<>> /\ tbwinit = <<>> /\ tgenerated = <<>> /\ tpc = <<>>
    /\ tfn = <<>> /\ tres = <<>>
    /\ idecl = <<>> /\ idict = <<>> /\ ivalue = <<>> /\ ipc = <<>>
    /\ iattempts = <<>>
    /\ xclasses = <<>> /\ xlast = <<>>

\* Classes derived from BWSmartObject and their instantiations.
SpecSmart == SpecSmartInit /\ [][SmartNext]_vars

SpecRegistryInit ==
    /\ rfamilies = RegistryInitial
    /\ rdicts = <<NoTypes>>
    /\ rcons \in {[registry |-> f, name |-> n, converted |-> 0,
                   first |-> 0] : f \in {1, 2}, n \in TypeNames}
    /\ rlast = [op |-> "ISA", family |-> rcons.registry,
                name |-> rcons.name, obj |-> 0, before |-> 0,
                result |-> 0, raised |-> FALSE]
    /\ uc1 = Constraint("NeverConstraint", <<>>)
    /\ uc2 = Constraint("NeverConstraint", <<>>)
    /\ uop = "idle"
    /\ ures = Constraint("NeverConstraint", <<>>)
    /\ bc1 = NEVER /\ bc2 = NEVER /\ bop = "idle" /\ bres = NEVER
    /\ classes = InitialClasses /\ created = NoCreation
    /\ minst = <<>> /\ mdecl = <<>> /\ mtrace = <<>> /\ mheap = <<>>
    /\ sdecl = <<>> /\ sdict = <<>> /\ slast = <<>>
    /\ pdecl = <<>> /\ pdict = <<>> /\ plast = <<>>
    /\ dcache = <<>> /\ douter = <<>> /\ dinner = <<>> /\ dlast = <<>>
    /\ kclasses = <<>> /\ klast = <<>>
    /\ oroles = <<>> /\ orequires = <<>> /\ otypes = <<>> /\ oinst = <<>> /\ olast = <<>>
    /\ cdecl = <<>> /\ cdict = <<>> /\ ccalls = <<>> /\ clast = <<>>
    /\ gtree = <<>> /\ gcursor = <<>> /\ glines = <<>> /\ glast = <<>>
    /\ tinline = <<>> /\ tbwinit = <<>> /\ tgenerated = <<>> /\ tpc = <<>>
    /\ tfn = <<>> /\ tres = <<>>
    /\ idecl = <<>> /\ idict = <<>> /\ ivalue = <<>> /\ ipc = <<>>
    /\ iattempts = <<>>
    /\ xclasses = <<>> /\ xlast = <<>>

\* Type families, registrations and one deferred type constraint.
SpecRegistry == SpecRegistryInit /\ [][RegistryNext]_vars

SpecRoleInit ==
    /\ oroles = <<>> /\ orequires = <<>>
    /\ otypes \in {<<[base |-> 0, attrs |-> a, roles |-> <<>>]>> :
                     a \in [MethodNames -> {"absent", "noctx", "ctx"}]}
    /\ oinst = [cls |-> 1, attrs |-> [n \in MethodNames |-> "absent"]]
    /\ olast = [op |-> "init", role |-> 0, target |-> 0, raised |-> 0,
                created |-> FALSE]
    /\ uc1 = Constraint("NeverConstraint", <<>>)
    /\ uc2 = Constraint("NeverConstraint", <<>>)
    /\ uop = "idle"
    /\ ures = Constraint("NeverConstraint", <<>>)
    /\ bc1 = NEVER /\ bc2 = NEVER /\ bop = "idle" /\ bres = NEVER
    /\ classes = InitialClasses /\ created = NoCreation
    /\ minst = <<>> /\ mdecl = <<>> /\ mtrace = <<>> /\ mheap = <<>>
    /\ sdecl = <<>> /\ sdict = <<>> /\ slast = <<>>
    /\ pdecl = <<>> /\ pdict = <<>> /\ plast = <<>>
    /\ dcache = <<>> /\ douter = <<>> /\ dinner = <<>> /\ dlast = <<>>
    /\ kclasses = <<>> /\ klast = <<>>
    /\ rfamilies = <<>> /\ rdicts = <<>> /\ rcons = <<>> /\ rlast = <<>>
    /\ cdecl = <<>> /\ cdict = <<>> /\ ccalls = <<>> /\ clast = <<>>
    /\ gtree = <<>> /\ gcursor = <<>> /\ glines = <<>> /\ glast = <<>>
    /\ tinline = <<>> /\ tbwinit = <<>> /\ tgenerated = <<>> /\ tpc = <<>>
    /\ tfn = <<>> /\ tres = <<>>
    /\ idecl = <<>> /\ idict = <<>> /\ ivalue = <<>> /\ ipc = <<>>
    /\ iattempts = <<>>
    /\ xclasses = <<>> /\ xlast = <<>>

\* Roles, their application to types and to one object.
SpecRole == SpecRoleInit /\ [][RoleNext]_vars

SpecCachedInit ==
    /\ cdecl \in {[fname |-> n] : n \in {"load", "alias"}}
    /\ cdict = [n \in {"load", "alias"} |-> Unset]
    /\ ccalls = 0
    /\ clast = [op |-> "new", called |-> FALSE, kind |-> "stored",
                obj |-> Unset, before |-> Unset]
    /\ uc1 = Constraint("NeverConstraint", <<>>)
    /\ uc2 = Constraint("NeverConstraint", <<>>)
    /\ uop = "idle"
    /\ ures = Constraint("NeverConstraint", <<>>)
    /\ bc1 = NEVER /\ bc2 = NEVER /\ bop = "idle" /\ bres = NEVER
    /\ classes = InitialClasses /\ created = NoCreation
    /\ minst = <<>> /\ mdecl = <<>> /\ mtrace = <<>> /\ mheap = <<>>
    /\ sdecl = <<>> /\ sdict = <<>> /\ slast = <<>>
    /\ pdecl = <<>> /\ pdict = <<>> /\ plast = <<>>
    /\ dcache = <<>> /\ douter = <<>> /\ dinner = <<>> /\ dlast = <<>>
    /\ kclasses = <<>> /\ klast = <<>>
    /\ rfamilies = <<>> /\ rdicts = <<>> /\ rcons = <<>> /\ rlast = <<>>
    /\ oroles = <<>> /\ orequires = <<>> /\ otypes = <<>> /\ oinst = <<>>
    /\ olast = <<>>
    /\ gtree = <<>> /\ gcursor = <<>> /\ glines = <<>> /\ glast = <<>>
    /\ tinline = <<>> /\ tbwinit = <<>> /\ tgenerated = <<>> /\ tpc = <<>>
    /\ tfn = <<>> /\ tres = <<>>
    /\ idecl = <<>> /\ idict = <<>> /\ ivalue = <<>> /\ ipc = <<>>
    /\ iattempts = <<>>
    /\ xclasses = <<>> /\ xlast = <<>>

\* Reads of an attribute made by cached.
SpecCached == SpecCachedInit /\ [][CachedNext]_vars

SpecCodeInit ==
    /\ gtree \in {Block(h, <<>>) : h \in Headers}
    /\ gcursor = <<>>
    /\ glines = <<>>
    /\ glast = [op |-> "new"]
    /\ uc1 = Constraint("NeverConstraint", <<>>)
    /\ uc2 = Constraint("NeverConstraint", <<>>)
    /\ uop = "idle"
    /\ ures = Constraint("NeverConstraint", <<>>)
    /\ bc1 = NEVER /\ bc2 = NEVER /\ bop = "idle" /\ bres = NEVER
    /\ classes = InitialClasses /\ created = NoCreation
    /\ minst = <<>> /\ mdecl = <<>> /\ mtrace = <<>> /\ mheap = <<>>
    /\ sdecl = <<>> /\ sdict = <<>> /\ slast = <<>>
    /\ pdecl = <<>> /\ pdict = <<>> /\ plast = <<>>
    /\ dcache = <<>> /\ douter = <<>> /\ dinner = <<>> /\ dlast = <<>>
    /\ kclasses = <<>> /\ klast = <<>>
    /\ rfamilies = <<>> /\ rdicts = <<>> /\ rcons = <<>> /\ rlast = <<>>
    /\ oroles = <<>> /\ orequires = <<>> /\ otypes = <<>> /\ oinst = <<>>
    /\ olast = <<>>
    /\ cdecl = <<>> /\ cdict = <<>> /\ ccalls = <<>> /\ clast = <<>>
    /\ tinline = <<>> /\ tbwinit = <<>> /\ tgenerated = <<>> /\ tpc = <<>>
    /\ tfn = <<>> /\ tres = <<>>
    /\ idecl = <<>> /\ idict = <<>> /\ ivalue = <<>> /\ ipc = <<>>
    /\ iattempts = <<>>
    /\ xclasses = <<>> /\ xlast = <<>>

\* CodeBlock trees and the lines they generate.
SpecCode == SpecCodeInit /\ [][CodeNext]_vars

SpecThreadInit ==
    /\ tinline \in {<<>>} \cup {<<m>> : m \in SmartMembers}
    /\ tbwinit = WrapperFor(1)
    /\ tgenerated = 0
    /\ tpc = [t \in Threads |-> "new"]
    /\ tfn = [t \in Threads |-> NoFn]
    /\ tres = [t \in Threads |-> NoResult]
    /\ uc1 = Constraint("NeverConstraint", <<>>)
    /\ uc2 = Constraint("NeverConstraint", <<>>)
    /\ uop = "idle"
    /\ ures = Constraint("NeverConstraint", <<>>)
    /\ bc1 = NEVER /\ bc2 = NEVER /\ bop = "idle" /\ bres = NEVER
    /\ classes = InitialClasses /\ created = NoCreation
    /\ minst = <<>> /\ mdecl = <<>> /\ mtrace = <<>> /\ mheap = <<>>
    /\ sdecl = <<>> /\ sdict = <<>> /\ slast = <<>>
    /\ pdecl = <<>> /\ pdict = <<>> /\ plast = <<>>
    /\ dcache = <<>> /\ douter = <<>> /\ dinner = <<>> /\ dlast = <<>>
    /\ kclasses = <<>> /\ klast = <<>>
    /\ rfamilies = <<>> /\ rdicts = <<>> /\ rcons = <<>> /\ rlast = <<>>
    /\ oroles = <<>> /\ orequires = <<>> /\ otypes = <<>> /\ oinst = <<>>
    /\ olast = <<>>
    /\ cdecl = <<>> /\ cdict = <<>> /\ ccalls = <<>> /\ clast = <<>>
    /\ gtree = <<>> /\ gcursor = <<>> /\ glines = <<>> /\ glast = <<>>
    /\ idecl = <<>> /\ idict = <<>> /\ ivalue = <<>> /\ ipc = <<>>
    /\ iattempts = <<>>
    /\ xclasses = <<>> /\ xlast = <<>>

\* Threads that instantiate one class for the first time.
SpecThread == SpecThreadInit /\ [][ThreadNext]_vars

SpecConvertInit ==
    /\ idecl \in ConvertDecls
    /\ idict = Unset
    /\ ivalue = Unset
    /\ ipc = "idle"
    /\ iattempts = 0
    /\ uc1 = Constraint("NeverConstraint", <<>>)
    /\ uc2 = Constraint("NeverConstraint", <<>>)
    /\ uop = "idle"
    /\ ures = Constraint("NeverConstraint", <<>>)
    /\ bc1 = NEVER /\ bc2 = NEVER /\ bop = "idle" /\ bres = NEVER
    /\ classes = InitialClasses /\ created = NoCreation
    /\ minst = <<>> /\ mdecl = <<>> /\ mtrace = <<>> /\ mheap = <<>>
    /\ sdecl = <<>> /\ sdict = <<>> /\ slast = <<>>
    /\ pdecl = <<>> /\ pdict = <<>> /\ plast = <<>>
    /\ dcache = <<>> /\ douter = <<>> /\ dinner = <<>> /\ dlast = <<>>
    /\ kclasses = <<>> /\ klast = <<>>
    /\ rfamilies = <<>> /\ rdicts = <<>> /\ rcons = <<>> /\ rlast = <<>>
    /\ oroles = <<>> /\ orequires = <<>> /\ otypes = <<>> /\ oinst = <<>>
    /\ olast = <<>>
    /\ cdecl = <<>> /\ cdict = <<>> /\ ccalls = <<>> /\ clast = <<>>
    /\ gtree = <<>> /\ gcursor = <<>> /\ glines = <<>> /\ glast = <<>>
    /\ tinline = <<>> /\ tbwinit = <<>> /\ tgenerated = <<>> /\ tpc = <<>>
    /\ tfn = <<>> /\ tres = <<>>
    /\ xclasses = <<>> /\ xlast = <<>>

\* Stores in a member with converters; a store that is under way goes on.
SpecConvert ==
    SpecConvertInit /\ [][ConvertNext]_vars /\ WF_vars(ICheck)

SpecMultiInit ==
    /\ xclasses = MultiInitial
    /\ xlast = [op |-> "init", cls |-> 1, given |-> {}, assigned |-> <<>>,
                raised |-> ""]
    /\ uc1 = Constraint("NeverConstraint", <<>>)
    /\ uc2 = Constraint("NeverConstraint", <<>>)
    /\ uop = "idle"
    /\ ures = Constraint("NeverConstraint", <<>>)
    /\ bc1 = NEVER /\ bc2 = NEVER /\ bop = "idle" /\ bres = NEVER
    /\ classes = InitialClasses /\ created = NoCreation
    /\ minst = <<>> /\ mdecl = <<>> /\ mtrace = <<>> /\ mheap = <<>>
    /\ sdecl = <<>> /\ sdict = <<>> /\ slast = <<>>
    /\ pdecl = <<>> /\ pdict = <<>> /\ plast = <<>>
    /\ dcache = <<>> /\ douter = <<>> /\ dinner = <<>> /\ dlast = <<>>
    /\ kclasses = <<>> /\ klast = <<>>
    /\ rfamilies = <<>> /\ rdicts = <<>> /\ rcons = <<>> /\ rlast = <<>>
    /\ oroles = <<>> /\ orequires = <<>> /\ otypes = <<>> /\ oinst = <<>>
    /\ olast = <<>>
    /\ cdecl = <<>> /\ cdict = <<>> /\ ccalls = <<>> /\ clast = <<>>
    /\ gtree = <<>> /\ gcursor = <<>> /\ glines = <<>> /\ glast = <<>>
    /\ tinline = <<>> /\ tbwinit = <<>> /\ tgenerated = <<>> /\ tpc = <<>>
    /\ tfn = <<>> /\ tres = <<>>
    /\ idecl = <<>> /\ idict = <<>> /\ ivalue = <<>> /\ ipc = <<>>
    /\ iattempts = <<>>

\* Classes with several base classes and their constructors.
SpecMulti == SpecMultiInit /\ [][MultiNext]_vars

\* C1: the compiled checker agrees with check on every value.
C1_FunctionEqualsCheck ==
    bop # "idle" =>
        \A v \in Values : function(bres, v) <=> bwcheck(bres, v)

\* C5: combining with | yields one OR node with no OR node among its
\* children, and combining with & one AND node with no AND node among its
\* children.
C5_SameKindIsFlattened ==
    bop \in {"or", "and"} =>
        \A i \in 1 .. Len(bres.constraints) :
            bres.constraints[i].kind # bres.kind

\* C2: v in (c1 & c2) exactly when v in c1 and v in c2.
C2_AndIsConjunction ==
    (uop = "and" /\ IsConstraint(uc2)) =>
        \A v \in Values :
            check(ures, v) <=> (check(uc1, v) /\ check(uc2, v))

\* C3: c1 | c2 never raises, and v in (c1 | c2) exactly when v in c1 or
\* v in c2.
C3_OrIsDefinedDisjunction ==
    (uop = "or" /\ IsConstraint(uc2)) =>
        /\ IsConstraint(ures)
        /\ \A v \in Values :
              check(ures, v) <=> (check(uc1, v) \/ check(uc2, v))

\* C4: v in (-c) exactly when not v in c, and -(-c) accepts what c accepts.
C4_NegIsComplement ==
    uop = "neg" =>
        \A v \in Values :
            /\ check(ures, v) <=> ~check(uc1, v)
            /\ check(Neg(ures), v) <=> check(uc1, v)

\* How often x occurs in the sequence q, and where it occurs first.
Count(q, x) == Cardinality({i \in 1 .. Len(q) : q[i] = x})
IndexOf(q, x) == CHOOSE i \in 1 .. Len(q) : q[i] = x

\* C6: when a class is created, the __bwsetup__ of every class of its MRO
\* that defines one in its own namespace is called exactly once, no other
\* is called, and a base class's is called before a subclass's.
C6_SetupOncePerClassBaseFirst ==
    created.cls # 0 =>
        LET mro == classes[created.cls].mro
            s   == created.setups
        IN  /\ \A c \in Elems(mro) :
                  Count(s, c) = IF classes[c].setup # "None" THEN 1 ELSE 0
            /\ Elems(s) \subseteq Elems(mro)
            /\ \A i \in 1 .. Len(s) : \A j \in 1 .. Len(s) :
                  i < j => IndexOf(mro, s[i]) > IndexOf(mro, s[j])

\* A class with two base classes was created and four __bwsetup__
\* functions ran, its own among them.
C6_Witness ==
    /\ created.cls # 0
    /\ Len(classes[created.cls].bases) = 2
    /\ Len(created.setups) >= 4
    /\ classes[created.cls].setup = "user"

\* The calls of the last finalization whose binder was declared in the
\* body of the class being finalized.
LocalCalls ==
    {i \in 1 .. Len(created.executed) :
        created.executed[i].fn.self.cls = created.executed[i].cls}

\* C7: the callbacks of the binders declared in the class's own body run
\* in ascending order of (__bwbindorder__ or 0, name), each once.
C7_LocalCallbacksInOrder ==
    LET e == created.executed
    IN  /\ \A i \in LocalCalls : \A j \in LocalCalls :
              i < j =>
                \/ e[i].sequence < e[j].sequence
                \/ e[i].sequence = e[j].sequence /\ e[i].name < e[j].name
        /\ \A i \in LocalCalls :
              /\ created.body[e[i].name].t = "binder"
              /\ e[i].sequence = created.body[e[i].name].order
        /\ created.cls # 0 =>
              \A name \in Names :
                  created.body[name].t = "binder" =>
                      Cardinality({i \in LocalCalls : e[i].name = name}) = 1

\* Both names were bound to binders, and the second name's ran first
\* because the first name's binder has the larger __bwbindorder__.
C7_Witness ==
    /\ created.cls # 0
    /\ \E i \in LocalCalls : \E j \in LocalCalls :
          /\ i < j
          /\ created.executed[i].name = 2
          /\ created.executed[j].name = 1

\* C8: while a class is finalized, every callback declared in one of its
\* proper base classes runs once, with the class being finalized, when it
\* has __bwrebind__, and does not run when it has none; every callback
\* declared in the class itself runs once.
C8_RebindOncePerClass ==
    created.cls # 0 =>
        LET mro == classes[created.cls].mro
            e   == created.executed
            calls(self) == {i \in 1 .. Len(e) : e[i].fn.self = self}
        IN  /\ \A k \in 1 .. Len(mro) :
                  \A j \in 1 .. Len(classes[mro[k]].bwcallbacks) :
                      LET self == classes[mro[k]].bwcallbacks[j].fn.self
                      IN  Cardinality(calls(self)) =
                             IF k = 1 \/ self.rebind # "None" THEN 1 ELSE 0
            /\ \A i \in 1 .. Len(e) : e[i].cls = created.cls

\* The third class of a chain was finalized: a callback declared in the
\* first class ran for it, and another callback of the first class, which
\* has no __bwrebind__, did not.
C8_Witness ==
    /\ created.cls # 0
    /\ Len(created.mro) = 5
    /\ \E i \in 1 .. Len(created.executed) :
          created.executed[i].fn.self.cls = created.mro[3]
    /\ \E j \in 1 .. Len(classes[created.mro[3]].bwcallbacks) :
          classes[created.mro[3]].bwcallbacks[j].fn.self.rebind = "None"

\* The replacements that the calls for a name returned, in order.
Returned(name) ==
    SelectSeq([i \in 1 .. Len(created.executed) |->
                   IF created.executed[i].name = name
                   THEN created.executed[i].replacement ELSE NoAttr],
              LAMBDA r : r.t # "absent")

\* C9: after finalization, an attribute whose callbacks all returned None
\* is unchanged; one for which NULL was returned last is not an attribute
\* of the class (hasattr is false); one for which another value was
\* returned last is that value.
C9_ReturnValueDeterminesAttribute ==
    created.cls # 0 =>
        \A name \in {created.executed[i].name :
                        i \in 1 .. Len(created.executed)} :
            LET r == Returned(name)
                after == GetAttr(created.mro, 1, name, classes)
            IN  CASE Len(r) = 0 ->
                        classes[created.cls].dict[name] = created.body[name]
                  [] Len(r) > 0 /\ r[Len(r)].t = "NULL" ->
                        after.t = "absent"
                  [] OTHER -> after = r[Len(r)]

\* C10: of two consecutive reads of a member with a builder, with no write
\* in between, the second returns the object the first returned, with the
\* items it then had, and does not run the builder again.
C10_BuilderRunsOnce ==
    \A i \in 1 .. Len(mtrace) - 1 :
        (mtrace[i].op # "write" /\ mtrace[i + 1].op # "write") =>
            /\ mtrace[i + 1].obj = mtrace[i].obj
            /\ mtrace[i + 1].built = 0
            /\ mtrace[i + 1].len =
                  mtrace[i].len + IF mtrace[i + 1].op = "append" THEN 1 ELSE 0

\* C11: after a value is stored in a member, every read until the next
\* write returns that value and does not run the builder.
C11_ReadReturnsStoredValue ==
    \A i \in 1 .. Len(mtrace) : \A j \in 1 .. Len(mtrace) :
        (/\ i < j
         /\ mtrace[i].op = "write"
         /\ \A k \in (i + 1) .. j : mtrace[k].op # "write") =>
            /\ mtrace[j].obj = mtrace[i].obj
            /\ mtrace[j].built = 0

\* C15: an assignment to a read-only member that already has a value is
\* rejected: no later read returns the object that was assigned.
C15_ConstRejectsWrite ==
    mdecl.kind = "CONST" =>
        \A i \in 2 .. Len(mtrace) : \A j \in 2 .. Len(mtrace) :
            (i < j /\ mtrace[i].op = "write" /\ mtrace[j].op # "write") =>
                mtrace[j].obj # mtrace[i].obj

\* C12: an assignment of a value that the member's constraint rejects
\* stores the result of the first conversion of into that succeeds with a
\* result the constraint accepts, and raises when there is none; what is
\* stored always satisfies the constraint.
C12_FirstAcceptableConversionStored ==
    LET member == Member(sdecl)
        into   == sdecl.into
        v      == slast.value
        good   == {k \in 1 .. Len(into) :
                      /\ ~Convert(into[k], v).raised
                      /\ bwcheck(member, Convert(into[k], v).value)}
    IN  /\ sdict # Unset => bwcheck(member, sdict)
        /\ (v # Unset /\ ~bwcheck(member, v)) =>
              IF good = {} THEN slast.raised
              ELSE /\ ~slast.raised
                   /\ sdict = Convert(into[CHOOSE k \in good :
                                 \A m \in good : k <= m], v).value

\* C13: when an unset member with a default and a builder method is read,
\* the builder method is called with the resolved default: the literal, a
\* new instance of a factory type, the result of a callable.
C13_BuilderGetsResolvedDefault ==
    (plast.op = "read" /\ plast.called
        /\ pdecl.default # AttributeErrorCls)
        => plast.arg = Resolve(pdecl.default)

\* C14: for a member that is not read-only, deleting a stored value removes
\* it, so that the next read is the read of a member never set, and
\* deleting when nothing is stored raises AttributeError and changes
\* nothing.
C14_DeleteReturnsToUnset ==
    [][(plast'.op = "delete" /\ ~pdecl.ro) =>
          IF TupleKey \in DOMAIN pdict
          THEN /\ plast'.raised = ""
               /\ TupleKey \notin DOMAIN pdict'
               /\ reader(pdecl, pdict') = reader(pdecl, NoStorage)
          ELSE /\ plast'.raised = "AttributeError"
               /\ pdict' = pdict]_vars

C14_Witness ==
    /\ plast.op = "delete" /\ ~pdecl.ro
    /\ plast.stored /\ plast.raised = ""
    /\ pdecl.default.kind = "type"

\* C16: an assignment to a delegated attribute of the outer object writes
\* the attribute of the nested object and leaves the storage of the outer
\* object alone.
C16_DelegateWritesThrough ==
    dlast.op = "write"
        => /\ ~dlast.raised
           /\ dinner = dlast.value
           /\ douter.delegate = Unset

\* C17: the constructor of a class is generated on the first instantiation
\* of the class, from the step list of the class, and stored on the class;
\* later instantiations of the class do not generate it again.
C17_ConstructorGeneratedOnce ==
    /\ \A c \in DOMAIN kclasses : kclasses[c].generated <= 1
    /\ klast.op = "new" =>
          /\ klast.generated = (klast.before = "wrapper")
          /\ kclasses[klast.cls].generated = 1
          /\ kclasses[klast.cls].bwinit.kind = "compiled"
          /\ kclasses[klast.cls].bwinit.body =
                [i \in DOMAIN kclasses[klast.cls].inline |->
                    kclasses[klast.cls].inline[i].name]

C19_NameResolvedAtFirstCheck ==
    rlast.op = "check" =>
        IF rlast.before # 0
        THEN /\ ~rlast.raised
             /\ rlast.result = (IF rlast.obj = rlast.before THEN 1 ELSE 0)
        ELSE \E now \in {GetItem(rfamilies, rdicts,
                                 rcons.registry, rcons.name)} :
                IF now = 0
                THEN rlast.raised
                ELSE /\ ~rlast.raised
                     /\ rlast.result = (IF rlast.obj = now THEN 1 ELSE 0)

C19_Witness ==
    /\ rlast.op = "check" /\ rlast.before # 0
    /\ GetItem(rfamilies, rdicts, rcons.registry, rcons.name)
           \notin {0, rlast.before}
    /\ rlast.obj # rlast.before

\* The registration of name the nearest class of the MRO of f made.
RECURSIVE NearestOwn(_, _, _, _)
NearestOwn(fs, mro, i, name) ==
    IF i > Len(mro)
    THEN 0
    ELSE IF fs[mro[i]].own[name] # 0
    THEN fs[mro[i]].own[name]
    ELSE NearestOwn(fs, mro, i + 1, name)

\* C20: Family[name] is the entry the nearest class of the MRO of the
\* family registered under the name, and KeyError when no class of the
\* MRO registered one: a name registered only on a sub-family is not
\* found on an ancestor.
C20_LookupFollowsTheMro ==
    rlast.op = "getitem" =>
        /\ rlast.result =
              NearestOwn(rfamilies, FamilyMro(rfamilies, rlast.family), 1,
                         rlast.name)
        /\ rlast.raised = (rlast.result = 0)

RECURSIVE RoleAndBases(_, _)
RoleAndBases(rs, role) ==
    IF role = 0 THEN {} ELSE {role} \cup RoleAndBases(rs, rs[role].base)

\* C30: Role.apply fails only for a requirement the role or one of its
\* base roles declared.
C30_OnlyOwnRequirements ==
    (olast.op \in {"type", "instance"} /\ olast.raised # 0)
        => orequires[olast.raised].role
               \in RoleAndBases(oroles, olast.role)

\* C23: for a method wrapped with cached, the function is called on every
\* read as long as its results are Volatile, such a read returns the
\* wrapped value and stores nothing; the first other result is stored on
\* the object, and every later read returns it without a call.
C23_CachedStoresFirstPlainResult ==
    [][(clast'.op = "read" /\ cdecl.fname = "load") =>
          IF cdict["load"] # Unset
          THEN /\ ~clast'.called /\ ccalls' = ccalls
               /\ clast'.obj = cdict["load"] /\ cdict' = cdict
          ELSE /\ clast'.called /\ ccalls' = ccalls + 1
               /\ IF clast'.kind = "plain"
                  THEN cdict'["load"] = clast'.obj
                  ELSE cdict' = cdict]_vars

C23_Witness ==
    /\ cdecl.fname = "load" /\ ccalls = 2
    /\ clast.op = "read" /\ ~clast.called
    /\ clast.obj = cdict["load"]

\* The block of gtree that encloses the item at path most closely, as the
\* path to it: the longest proper prefix of path that leads to a block.
RECURSIVE EnclosingBlock(_)
EnclosingBlock(path) ==
    LET up == SubSeq(path, 1, Len(path) - 1)
    IN  IF ItemAt(gtree, up).kind = "block" THEN up ELSE EnclosingBlock(up)

\* The indentation the block at path is generated at: that of its header
\* when it has one, else that of the lines of the block around it.
RECURSIVE BlockIndent(_)
BlockIndent(path) ==
    IF \E l \in 1 .. Len(glines) :
          glines[l].what = "header" /\ glines[l].path = path
    THEN (CHOOSE n \in 0 .. 4 * (MaxDepth + 1) :
             \E l \in 1 .. Len(glines) :
                /\ glines[l].what = "header" /\ glines[l].path = path
                /\ glines[l].indent = n)
    ELSE IF path = <<>> THEN 0
    ELSE LET out == EnclosingBlock(path)
         IN  BlockIndent(out) +
             (IF endswith_colon(strip(ItemAt(gtree, out).statement))
              THEN 4 ELSE 0)

\* C24: in the lines generated from a tree, every line that comes from a
\* child of a block (a statement, or the header of a nested block) is
\* indented four spaces deeper than the block's header when the header,
\* stripped, ends with ':', and as the block itself when the block has no
\* header or one that does not end with ':'; a header ending with ':'
\* whose block produces no line is followed at once by a 'pass' four
\* spaces deeper.
C24_ChildrenOneLevelDeeper ==
    glast.op = "generate" =>
        /\ \A l \in 1 .. Len(glines) :
              (glines[l].what \in {"child", "header"} /\ glines[l].path # <<>>)
              => LET out == EnclosingBlock(glines[l].path)
                     hdr == strip(ItemAt(gtree, out).statement)
                 IN  glines[l].indent =
                        BlockIndent(out) +
                        (IF endswith_colon(hdr) THEN 4 ELSE 0)
        /\ \A l \in 1 .. Len(glines) :
              (/\ glines[l].what = "header"
               /\ endswith_colon(glines[l].text)
               /\ ~ \E m \in 1 .. Len(glines) :
                       /\ glines[m].what \in {"child", "header"}
                       /\ Len(glines[m].path) > Len(glines[l].path)
                       /\ SubSeq(glines[m].path, 1, Len(glines[l].path))
                             = glines[l].path)
              => /\ l < Len(glines)
                 /\ glines[l + 1].what = "pass"
                 /\ glines[l + 1].text = PassText
                 /\ glines[l + 1].indent = glines[l].indent + 4

\* A generated text with a statement under a nested header ending with ':'
\* inside a block without a header, and an empty block ending with ':'.
C24_Witness ==
    /\ glast.op = "generate"
    /\ \E l \in 1 .. Len(glines) :
          /\ glines[l].what = "child" /\ glines[l].indent = 4
          /\ Len(glines[l].path) = 2
    /\ \E l \in 1 .. Len(glines) : glines[l].what = "pass"
    /\ \E l \in 1 .. Len(glines) :
          /\ glines[l].what = "child"
          /\ ~ endswith_colon(strip(ItemAt(gtree,
                                  EnclosingBlock(glines[l].path)).statement))

\* The attribute the class created last had under name when its body
\* ended, before any callback: that of the body, else the inherited one.
AtBodyEnd(name) ==
    IF created.body[name].t # "absent" THEN created.body[name]
    ELSE GetAttr(Tail(created.mro), 1, name, classes)

\* C25: while one class is finalized, a callback for a name for which an
\* earlier callback returned a replacement is given the replacement of
\* the most recent such callback, a callback with no such predecessor is
\* given the attribute itself, and at every call the class still has the
\* attribute its body gave it: the replacements are applied only after
\* the last callback.
C25_LaterCallbackSeesReplacement ==
    LET e == created.executed
    IN  \A j \in 1 .. Len(e) :
           LET earlier == {i \in 1 .. j - 1 :
                              /\ e[i].name = e[j].name
                              /\ e[i].replacement.t # "absent"}
           IN  /\ e[j].attr = AtBodyEnd(e[j].name)
               /\ IF earlier = {}
                  THEN e[j].value = e[j].attr
                  ELSE e[j].value =
                          e[CHOOSE i \in earlier :
                               \A k \in earlier : k <= i].replacement

\* A class was created for which a local callback returned a replacement
\* and a rebound callback of a base class was then given it for the same
\* name.
C25_Witness ==
    /\ created.cls # 0
    /\ \E i, j \in 1 .. Len(created.executed) :
          /\ i < j
          /\ created.executed[i].name = created.executed[j].name
          /\ created.executed[i].fn.self.cls = created.cls
          /\ created.executed[j].fn.self.cls # created.cls
          /\ created.executed[i].replacement.t = "repl"
          /\ created.executed[j].value = created.executed[i].replacement
          /\ created.executed[j].value # created.executed[j].attr

\* The members of the class instantiated last that the call left out and
\* that are optional without a default.
OmittedOptional ==
    {n \in MemberNames \ klast.given :
        \E m \in Effective(kclasses[klast.cls].inline, n) :
            ~ m.required /\ m.default = "NULL"}

\* C26: an instantiation whose constructor compiled, that gives every
\* member except optional ones without a default, succeeds and assigns no
\* member that was left out.
C26_OmittedOptionalLeftUnset ==
    (/\ klast.op = "new"
     /\ klast.raised # "EvalError"
     /\ OmittedOptional # {}
     /\ \A n \in MemberNames \ klast.given :
           Effective(kclasses[klast.cls].inline, n) # {}
               => n \in OmittedOptional)
    => /\ klast.raised = ""
       /\ \A i \in DOMAIN klast.assigned :
             klast.assigned[i] \notin OmittedOptional

\* C27: however the threads that instantiate a class for the first time
\* interleave, its constructor is generated and compiled at most once,
\* and every instantiation that has returned was carried out by the
\* compiled constructor.
C27_GeneratedOnceUnderThreads ==
    /\ tgenerated <= 1
    /\ \A t \in Threads :
          (tpc[t] = "done" /\ tres[t].raised # "EvalError")
              => tres[t].by = "compiled"

\* C28: every store that __initobj__ begins ends: after finitely many
\* calls of the checker the value is stored or TypeError is raised.
C28_InitobjTerminates == (ipc = "loop") ~> (ipc \in {"stored", "raised"})

\* C29: the step list of every class holds the step of every member
\* declared in a class of its MRO exactly once and no other step, and an
\* instantiation that succeeds and was given every member declared in the
\* MRO of its class has assigned each of them.
C29_StepsOfEveryBase ==
    /\ \A cls \in DOMAIN xclasses :
          LET steps == StepsOf(xclasses, cls)
              all   == InlineOfAll(xclasses, xclasses[cls].mro, 1)
          IN  /\ Elems(steps) = Elems(all)
              /\ \A i, j \in DOMAIN steps : steps[i] = steps[j] => i = j
    /\ (xlast.op = "new" /\ xlast.raised = "")
          => \A m \in Elems(InlineOfAll(xclasses,
                                         xclasses[xlast.cls].mro, 1)) :
                m.name \in xlast.given => m.name \in Elems(xlast.assigned)

====
